---- MODULE Spec2Model ----
(***************************************************************************)
(* Activity logging face of second-movement                               *)
(* (src/watch-faces/sensor/activity_logging_face.c).                      *)
(*                                                                         *)
(* The face keeps one activity_logging_state_t.  The host (Movement) calls *)
(* activity_logging_face_advise at the top of every minute and delivers    *)
(* events to activity_logging_face_loop.  The struct is the record `state`;*)
(* every C function that changes it is an operator from the struct (and    *)
(* the function's inputs) to the struct after the call.  The host is the   *)
(* environment: its clock, the advisory it last received, the background   *)
(* task it owes the face.  History variables record what happened, so that *)
(* properties can speak about it; no operator of the face reads them.      *)
(***************************************************************************)
EXTENDS Integers, Sequences, FiniteSets, TLC

(* ---------------------------------------------------------------- bounds *)

\* Capacity of the daily ring (ACTIVITY_LOGGING_NUM_DAYS of the face's header).
ACTIVITY_LOGGING_NUM_DAYS == 14

\* Minutes a run of Spec lasts.
ShortRun == 5

\* Minutes a run of SpecMinutely lasts: two midnights when started at 23:57.
LongRun == 1446

\* Minutes the host may leave a requested background task undelivered before
\* it either delivers or abandons it.
MaxDelay == 1

\* Deliveries of EVENT_BACKGROUND_TASK beyond the ring's capacity in SpecRing.
ExtraCommits == 3

\* Minutes a run of SpecRing lasts.
RingRun == 5

\* SpecMinutely: the minutes on each side of midnight in which the wearer may
\* be still; in every other minute the wearer moves.
FreeMinutes == 2

\* SpecFeed: the advisory calls made, all with motion present.
FeedSamples == 150

\* SpecFeed: the hour the clock shows at every advisory call.
FeedHour == 10

\* SpecSleep: minutes the clock moves on.
SleepRun == 2

(* ------------------------------------------------------------- constants *)

\* uint16_t arithmetic.
U16 == 65536

HoursPerDay == 24

MinutesPerHour == 60

MinutesPerDay == HoursPerDay * MinutesPerHour

N == ACTIVITY_LOGGING_NUM_DAYS

\* 2^32 modulo the ring's capacity: what a uint32_t that wrapped below zero
\* contributes to a remainder by ACTIVITY_LOGGING_NUM_DAYS.
U32ModN == ((U16 % N) * (U16 % N)) % N

\* uint8_t arithmetic.
U8 == 256

\* Entries of a histogram window: uint8_t count = 12.
WindowSize == 12

\* The views of histogram mode, in the order the LIGHT button cycles them.
HISTOGRAM_VIEW_CHART == 0

HISTOGRAM_VIEW_MEDIAN == 1

HISTOGRAM_VIEW_MIN == 2

HISTOGRAM_VIEW_MAX == 3

VARIABLES
    state,                  \* the face's activity_logging_state_t
    hour, minute,           \* host clock, as movement_get_local_date_time reads it
    wants_background_task,  \* what the latest advisory returned
    pending,                \* the host owes the face an EVENT_BACKGROUND_TASK
    pending_age,            \* minutes since that request was raised
    foreground,             \* the face has been activated
    display,                \* what the face last wrote to the LCD
    data,                   \* data[12] of the latest histogram page
    \* history variables
    elapsed,                \* advisory calls so far
    midnights,              \* times the clock reached 00:00
    requests,               \* advisories that returned wants_background_task
    delivered,              \* accumulator value at each EVENT_BACKGROUND_TASK
    commits_today,          \* EVENT_BACKGROUND_TASKs since the clock reached 00:00
    prev_reading,           \* the previous minute reported motion
    amt_at_request,         \* accumulator when the latest request was raised
    day_credits,            \* minutes credited since the latest request
    closed_day_credits,     \* minutes credited in the day the latest request closed
    slot_credits,           \* per hour: minutes credited to it since slot_reset_at
    slot_reset_at,          \* per hour: `elapsed' at its latest h:00 advisory (0: boot)
    twin,                   \* the struct of a run with the same advisories and
                            \* background tasks and no user input
    timed_out,              \* the latest event the loop handled was EVENT_TIMEOUT
    \* the sleep calculator face
    sleep_state,            \* its sleep_calculator_state_t
    sleep_foreground,       \* it has been activated
    sleep_elapsed,          \* minutes the clock has moved on under SpecSleep
    sleep_fires,            \* EVENT_BACKGROUND_TASKs it has handled since the
                            \* latest ALARM long press
    day_ticks,              \* EVENT_TICKs handled in day mode since the latest
                            \* activation, counted up to 2
    \* the bytebase face
    bytebase_state,         \* its bytebase_state_t
    bytebase_foreground     \* it is the face on the display

host == <<hour, minute, wants_background_task, pending, pending_age, foreground>>
lcd == <<display, data>>
hist == <<elapsed, midnights, requests, delivered, commits_today, prev_reading,
          amt_at_request, day_credits, closed_day_credits, slot_credits,
          slot_reset_at, twin>>
sleep == <<sleep_state, sleep_foreground, sleep_elapsed, sleep_fires>>
bytebase == <<bytebase_state, bytebase_foreground>>
activity == <<state, wants_background_task, pending, pending_age, foreground,
              timed_out, day_ticks>>
vars == <<state, hour, minute, wants_background_task, pending, pending_age,
          foreground, display, data, elapsed, midnights, requests, delivered,
          commits_today, prev_reading, amt_at_request, day_credits,
          closed_day_credits, slot_credits, slot_reset_at, twin, timed_out,
          sleep_state, sleep_foreground, sleep_elapsed, sleep_fires,
          day_ticks, bytebase_state, bytebase_foreground>>

(* ------------------------------------------------------------- the face *)

\* memset(*context_ptr, 0, sizeof(activity_logging_state_t))
activity_logging_face_setup ==
    [ activity_log               |-> [i \in 0..(N - 1) |-> 0],
      data_points                |-> 0,
      display_index              |-> 0,
      active_minutes_today       |-> 0,
      previous_minute_was_active |-> FALSE,
      hourly_data                |-> [h \in 0..(HoursPerDay - 1) |-> 0],
      mode                       |-> "MODE_DAY",
      histogram_view             |-> 0,
      timeframe_mode             |-> "12H",
      show_emoticon              |-> FALSE,
      emoticon_tick_count        |-> 0 ]

\* Mutant: activation also clears today's count.
activity_logging_face_activate_clears_today(s) ==
    [s EXCEPT !.display_index = 0,
              !.show_emoticon = TRUE,
              !.emoticon_tick_count = 0,
              !.active_minutes_today = 0]

activity_logging_face_activate(s) ==
    [s EXCEPT !.display_index = 0,
              !.show_emoticon = TRUE,
              !.emoticon_tick_count = 0]

\* Mutant: entering histogram mode clears data_points instead of
\* display_index.
_activity_logging_handle_day_events_clears_count(s, event_type) ==
    CASE event_type = "EVENT_LIGHT_BUTTON_UP" ->
            IF s.display_index > 0
            THEN [s EXCEPT !.display_index = @ - 1]
            ELSE s
      [] event_type = "EVENT_LIGHT_LONG_PRESS" ->
            [s EXCEPT !.mode = "MODE_HISTOGRAM", !.data_points = 0]
      [] event_type = "EVENT_ALARM_BUTTON_DOWN" ->
            [s EXCEPT !.display_index = (@ + 1) % ACTIVITY_LOGGING_NUM_DAYS]
      [] event_type = "EVENT_TICK" ->
            IF s.show_emoticon
            THEN IF s.emoticon_tick_count + 1 > 1
                 THEN [s EXCEPT !.emoticon_tick_count = @ + 1,
                                !.show_emoticon = FALSE]
                 ELSE [s EXCEPT !.emoticon_tick_count = @ + 1]
            ELSE s
      [] event_type = "EVENT_TIMEOUT" ->
            [s EXCEPT !.display_index = 0]
      [] OTHER -> s

\* Mutant: the long press into histogram mode leaves display_index alone.
_activity_logging_handle_day_events_keeps_index(s, event_type) ==
    CASE event_type = "EVENT_LIGHT_BUTTON_UP" ->
            IF s.display_index > 0
            THEN [s EXCEPT !.display_index = @ - 1]
            ELSE s
      [] event_type = "EVENT_LIGHT_LONG_PRESS" ->
            [s EXCEPT !.mode = "MODE_HISTOGRAM"]
      [] event_type = "EVENT_ALARM_BUTTON_DOWN" ->
            [s EXCEPT !.display_index = (@ + 1) % ACTIVITY_LOGGING_NUM_DAYS]
      [] event_type = "EVENT_TICK" ->
            IF s.show_emoticon
            THEN IF s.emoticon_tick_count + 1 > 1
                 THEN [s EXCEPT !.emoticon_tick_count = @ + 1,
                                !.show_emoticon = FALSE]
                 ELSE [s EXCEPT !.emoticon_tick_count = @ + 1]
            ELSE s
      [] event_type = "EVENT_TIMEOUT" ->
            [s EXCEPT !.display_index = 0]
      [] OTHER -> s

\* Mutant: the ALARM button counts up without the modulo (uint8_t).
_activity_logging_handle_day_events_no_wrap(s, event_type) ==
    CASE event_type = "EVENT_LIGHT_BUTTON_UP" ->
            IF s.display_index > 0
            THEN [s EXCEPT !.display_index = @ - 1]
            ELSE s
      [] event_type = "EVENT_LIGHT_LONG_PRESS" ->
            [s EXCEPT !.mode = "MODE_HISTOGRAM", !.display_index = 0]
      [] event_type = "EVENT_ALARM_BUTTON_DOWN" ->
            [s EXCEPT !.display_index = (@ + 1) % U8]
      [] event_type = "EVENT_TICK" ->
            IF s.show_emoticon
            THEN IF s.emoticon_tick_count + 1 > 1
                 THEN [s EXCEPT !.emoticon_tick_count = @ + 1,
                                !.show_emoticon = FALSE]
                 ELSE [s EXCEPT !.emoticon_tick_count = @ + 1]
            ELSE s
      [] event_type = "EVENT_TIMEOUT" ->
            [s EXCEPT !.display_index = 0]
      [] OTHER -> s

\* Mutant: the emoticon goes away at the first tick.
_activity_logging_handle_day_events_one_tick(s, event_type) ==
    CASE event_type = "EVENT_LIGHT_BUTTON_UP" ->
            IF s.display_index > 0
            THEN [s EXCEPT !.display_index = @ - 1]
            ELSE s
      [] event_type = "EVENT_LIGHT_LONG_PRESS" ->
            [s EXCEPT !.mode = "MODE_HISTOGRAM", !.display_index = 0]
      [] event_type = "EVENT_ALARM_BUTTON_DOWN" ->
            [s EXCEPT !.display_index = (@ + 1) % ACTIVITY_LOGGING_NUM_DAYS]
      [] event_type = "EVENT_TICK" ->
            IF s.show_emoticon
            THEN IF s.emoticon_tick_count + 1 > 0
                 THEN [s EXCEPT !.emoticon_tick_count = @ + 1,
                                !.show_emoticon = FALSE]
                 ELSE [s EXCEPT !.emoticon_tick_count = @ + 1]
            ELSE s
      [] event_type = "EVENT_TIMEOUT" ->
            [s EXCEPT !.display_index = 0]
      [] OTHER -> s

_activity_logging_handle_day_events(s, event_type) ==
    CASE event_type = "EVENT_LIGHT_BUTTON_UP" ->
            IF s.display_index > 0
            THEN [s EXCEPT !.display_index = @ - 1]
            ELSE s
      [] event_type = "EVENT_LIGHT_LONG_PRESS" ->
            [s EXCEPT !.mode = "MODE_HISTOGRAM", !.display_index = 0]
      [] event_type = "EVENT_ALARM_BUTTON_DOWN" ->
            [s EXCEPT !.display_index = (@ + 1) % ACTIVITY_LOGGING_NUM_DAYS]
      [] event_type = "EVENT_TICK" ->
            IF s.show_emoticon
            THEN IF s.emoticon_tick_count + 1 > 1
                 THEN [s EXCEPT !.emoticon_tick_count = @ + 1,
                                !.show_emoticon = FALSE]
                 ELSE [s EXCEPT !.emoticon_tick_count = @ + 1]
            ELSE s
      [] event_type = "EVENT_TIMEOUT" ->
            [s EXCEPT !.display_index = 0]
      [] OTHER -> s

\* Mutant: the LIGHT button cycles three views and never reaches Max.
_activity_logging_handle_histogram_events_three_views(s, event_type) ==
    CASE event_type = "EVENT_LIGHT_BUTTON_UP" ->
            [s EXCEPT !.histogram_view = (@ + 1) % 3]
      [] event_type = "EVENT_LIGHT_LONG_PRESS" ->
            [s EXCEPT !.mode = "MODE_DAY"]
      [] event_type = "EVENT_ALARM_BUTTON_DOWN" ->
            [s EXCEPT !.timeframe_mode = IF @ = "12H" THEN "12D" ELSE "12H"]
      [] event_type = "EVENT_TIMEOUT" ->
            [s EXCEPT !.display_index = 0]
      [] OTHER -> s

\* Mutant: the timeout also goes back to the chart view.
_activity_logging_handle_histogram_events_timeout_resets_view(s, event_type) ==
    CASE event_type = "EVENT_LIGHT_BUTTON_UP" ->
            [s EXCEPT !.histogram_view = (@ + 1) % 4]
      [] event_type = "EVENT_LIGHT_LONG_PRESS" ->
            [s EXCEPT !.mode = "MODE_DAY"]
      [] event_type = "EVENT_ALARM_BUTTON_DOWN" ->
            [s EXCEPT !.timeframe_mode = IF @ = "12H" THEN "12D" ELSE "12H"]
      [] event_type = "EVENT_TIMEOUT" ->
            [s EXCEPT !.display_index = 0,
                      !.histogram_view = HISTOGRAM_VIEW_CHART]
      [] OTHER -> s

_activity_logging_handle_histogram_events(s, event_type) ==
    CASE event_type = "EVENT_LIGHT_BUTTON_UP" ->
            [s EXCEPT !.histogram_view = (@ + 1) % 4]
      [] event_type = "EVENT_LIGHT_LONG_PRESS" ->
            [s EXCEPT !.mode = "MODE_DAY"]
      [] event_type = "EVENT_ALARM_BUTTON_DOWN" ->
            [s EXCEPT !.timeframe_mode = IF @ = "12H" THEN "12D" ELSE "12H"]
      [] event_type = "EVENT_TIMEOUT" ->
            [s EXCEPT !.display_index = 0]
      [] OTHER -> s

\* Mutant: the accumulator is not cleared after it is stored.
background_task_keeps_accumulator(s) ==
    LET pos == s.data_points % ACTIVITY_LOGGING_NUM_DAYS
    IN  [s EXCEPT !.activity_log = [@ EXCEPT ![pos] = s.active_minutes_today],
                  !.data_points = @ + 1]

\* Mutant: the write position is computed after the increment.
background_task_off_by_one(s) ==
    LET pos == (s.data_points + 1) % ACTIVITY_LOGGING_NUM_DAYS
    IN  [s EXCEPT !.activity_log = [@ EXCEPT ![pos] = s.active_minutes_today],
                  !.data_points = @ + 1,
                  !.active_minutes_today = 0]

\* case EVENT_BACKGROUND_TASK of activity_logging_face_loop
background_task(s) ==
    LET pos == s.data_points % ACTIVITY_LOGGING_NUM_DAYS
    IN  [s EXCEPT !.activity_log = [@ EXCEPT ![pos] = s.active_minutes_today],
                  !.data_points = @ + 1,
                  !.active_minutes_today = 0]

\* Mutant: case EVENT_LIGHT_BUTTON_DOWN lacks its break and falls through to
\* case EVENT_BACKGROUND_TASK.
activity_logging_face_loop_fallthrough(s, event_type) ==
    LET handled == IF s.mode = "MODE_DAY"
                   THEN _activity_logging_handle_day_events(s, event_type)
                   ELSE _activity_logging_handle_histogram_events(s, event_type)
    IN  IF event_type \in {"EVENT_LIGHT_BUTTON_DOWN", "EVENT_BACKGROUND_TASK"}
        THEN background_task(handled)
        ELSE handled

activity_logging_face_loop(s, event_type) ==
    LET handled == IF s.mode = "MODE_DAY"
                   THEN _activity_logging_handle_day_events(s, event_type)
                   ELSE _activity_logging_handle_histogram_events(s, event_type)
    IN  IF event_type = "EVENT_BACKGROUND_TASK"
        THEN background_task(handled)
        ELSE handled

\* Mutant: every minute with motion is credited, the latch is not consulted.
activity_logging_face_advise_no_debounce(s, h, m, a4_read) ==
    LET reset == IF m = 0 THEN [s.hourly_data EXCEPT ![h] = 0] ELSE s.hourly_data
    IN  IF ~a4_read
        THEN [s EXCEPT !.active_minutes_today = (@ + 1) % U16,
                       !.hourly_data = [reset EXCEPT ![h] = (@ + 1) % U16],
                       !.previous_minute_was_active = TRUE]
        ELSE [s EXCEPT !.hourly_data = reset,
                       !.previous_minute_was_active = FALSE]

\* Mutant: the current hour's slot is not cleared at minute 0.
activity_logging_face_advise_no_hour_reset(s, h, m, a4_read) ==
    IF ~a4_read
    THEN IF s.previous_minute_was_active
         THEN [s EXCEPT !.active_minutes_today = (@ + 1) % U16,
                        !.hourly_data = [@ EXCEPT ![h] = (@ + 1) % U16]]
         ELSE [s EXCEPT !.previous_minute_was_active = TRUE]
    ELSE [s EXCEPT !.previous_minute_was_active = FALSE]

\* Mutant: the slot is cleared after the minute's sample has been applied.
activity_logging_face_advise_reset_after(s, h, m, a4_read) ==
    LET sampled ==
            IF ~a4_read
            THEN IF s.previous_minute_was_active
                 THEN [s EXCEPT !.active_minutes_today = (@ + 1) % U16,
                                !.hourly_data = [@ EXCEPT ![h] = (@ + 1) % U16]]
                 ELSE [s EXCEPT !.previous_minute_was_active = TRUE]
            ELSE [s EXCEPT !.previous_minute_was_active = FALSE]
    IN  IF m = 0
        THEN [sampled EXCEPT !.hourly_data = [@ EXCEPT ![h] = 0]]
        ELSE sampled

\* Mutant: the slot is cleared only at midnight.
activity_logging_face_advise_reset_at_midnight(s, h, m, a4_read) ==
    LET reset == IF h = 0 /\ m = 0
                 THEN [s.hourly_data EXCEPT ![h] = 0]
                 ELSE s.hourly_data
    IN  IF ~a4_read
        THEN IF s.previous_minute_was_active
             THEN [s EXCEPT !.active_minutes_today = (@ + 1) % U16,
                            !.hourly_data = [reset EXCEPT ![h] = (@ + 1) % U16]]
             ELSE [s EXCEPT !.hourly_data = reset,
                            !.previous_minute_was_active = TRUE]
        ELSE [s EXCEPT !.hourly_data = reset,
                       !.previous_minute_was_active = FALSE]

\* The struct after activity_logging_face_advise at local time h:m, with
\* a4_read the level HAL_GPIO_A4_read() returns (TRUE: no motion this minute).
activity_logging_face_advise(s, h, m, a4_read) ==
    LET reset == IF m = 0 THEN [s.hourly_data EXCEPT ![h] = 0] ELSE s.hourly_data
    IN  IF ~a4_read
        THEN IF s.previous_minute_was_active
             THEN [s EXCEPT !.active_minutes_today = (@ + 1) % U16,
                            !.hourly_data = [reset EXCEPT ![h] = (@ + 1) % U16]]
             ELSE [s EXCEPT !.hourly_data = reset,
                            !.previous_minute_was_active = TRUE]
        ELSE [s EXCEPT !.hourly_data = reset,
                       !.previous_minute_was_active = FALSE]

\* Mutant: the request is raised through the whole of hour 0.
advise_wants_background_task_all_hour(h, m) == h = 0

\* retval.wants_background_task of activity_logging_face_advise at h:m
advise_wants_background_task(h, m) == h = 0 /\ m = 0

(* ------------------------------------------------------------ the pages *)

\* (int16_t) x
Int16(x) ==
    LET r == x % U16
    IN  IF r >= U16 \div 2 THEN r - U16 ELSE r

\* a % b as C computes it for b > 0: the remainder has the sign of a.
CRem(a, b) == IF a >= 0 THEN a % b ELSE 0 - ((0 - a) % b)

\* No bar is lit.
NoBars == [bar \in 0..(WindowSize - 1) |-> 0]

\* data[12] before any histogram page has filled it.
NoData == [i \in 0..(WindowSize - 1) |-> 0]

\* The LCD before the face has drawn anything.  top_right is a day of the
\* month given as days back from today ("day_back"), an hour ("hour") or
\* the text "12" ("count"); bottom is a number of minutes ("minutes"), the mood
\* character ("mood"), the text "no dat", the histogram bars ("bars") or blank.
BlankDisplay ==
    [ top_left       |-> "",
      top_right_kind |-> "blank",
      top_right      |-> 0,
      bottom_kind    |-> "blank",
      bottom_text    |-> "",
      bottom         |-> 0,
      bars           |-> NoBars,
      signal         |-> FALSE,
      colon          |-> FALSE ]

_activity_logging_get_mood_face(active_minutes) ==
    IF active_minutes >= 150 THEN ")"
    ELSE IF active_minutes >= 30 THEN "1"
    ELSE "("

_get_bar_height(minutes, is_hourly_data) ==
    IF is_hourly_data
    THEN IF minutes >= 10 THEN 2 ELSE IF minutes >= 5 THEN 1 ELSE 0
    ELSE IF minutes >= 150 THEN 2 ELSE IF minutes >= 30 THEN 1 ELSE 0

\* Mutant: the window starts twelve hours back instead of eleven.
hour_index_twelve_back(current_hour, i) ==
    (current_hour - 12 + i + HoursPerDay) % HoursPerDay

\* int hour_index = (current_hour - 11 + i + 24) % 24
hour_index(current_hour, i) ==
    (current_hour - 11 + i + HoursPerDay) % HoursPerDay

\* Mutant: data_points is read as a signed number, so the index of a day
\* before the first commit is negative.
day_index_signed(data_points, i) ==
    CRem(data_points - 12 + i, ACTIVITY_LOGGING_NUM_DAYS)

\* int day_index = (state->data_points - 12 + i) % ACTIVITY_LOGGING_NUM_DAYS:
\* data_points is a uint32_t, so the subtraction wraps modulo 2^32 when
\* data_points + i < 12, the remainder is taken of the wrapped value and the
\* result is never negative.
day_index(data_points, i) ==
    LET x == data_points - 12 + i
    IN  IF x >= 0
        THEN x % ACTIVITY_LOGGING_NUM_DAYS
        ELSE (U32ModN + (x % ACTIVITY_LOGGING_NUM_DAYS))
                 % ACTIVITY_LOGGING_NUM_DAYS

\* if (day_index < 0 || day_index >= state->data_points): the slot holds no data.
day_has_no_data(data_points, i) ==
    \/ day_index(data_points, i) < 0
    \/ day_index(data_points, i) >= data_points

\* data[12] as _activity_logging_handle_histogram_page fills it.
histogram_data(s, current_hour) ==
    [i \in 0..(WindowSize - 1) |->
        IF s.timeframe_mode = "12H"
        THEN s.hourly_data[hour_index(current_hour, i)]
        ELSE IF day_has_no_data(s.data_points, i)
             THEN 0
             ELSE s.activity_log[day_index(s.data_points, i)]]

\* The heights of the twelve bars _draw_histogram draws.
_draw_histogram(s, current_hour) ==
    [bar \in 0..(WindowSize - 1) |->
        IF s.timeframe_mode = "12H"
        THEN _get_bar_height(s.hourly_data[hour_index(current_hour, bar)], TRUE)
        ELSE IF day_has_no_data(s.data_points, bar)
             THEN 0
             ELSE _get_bar_height(s.activity_log[day_index(s.data_points, bar)],
                                  FALSE)]

\* The inner loop of the bubble sort, from j to the end of the unsorted part.
RECURSIVE bubble_pass(_, _, _)
bubble_pass(sorted_data, j, limit) ==
    IF j >= limit
    THEN sorted_data
    ELSE IF sorted_data[j] > sorted_data[j + 1]
         THEN bubble_pass([sorted_data EXCEPT ![j] = sorted_data[j + 1],
                                              ![j + 1] = sorted_data[j]],
                          j + 1, limit)
         ELSE bubble_pass(sorted_data, j + 1, limit)

\* The outer loop of the bubble sort, from pass i.
RECURSIVE bubble_sort(_, _, _)
bubble_sort(sorted_data, i, count) ==
    IF i >= count - 1
    THEN sorted_data
    ELSE bubble_sort(bubble_pass(sorted_data, 0, count - i - 1), i + 1, count)

\* Mutant: an even count returns the upper of the two middle elements.
_calculate_median_upper_middle(window, count) ==
    bubble_sort(window, 0, count)[count \div 2]

\* The copy sorted_data leaves the caller's window as it is.
_calculate_median(window, count) ==
    LET sorted_data == bubble_sort(window, 0, count)
    IN  IF count % 2 = 0
        THEN ((sorted_data[count \div 2 - 1] + sorted_data[count \div 2]) \div 2)
                 % U16
        ELSE sorted_data[count \div 2]

\* Mutant: a later entry replaces the minimum only when strictly smaller.
RECURSIVE find_min_from_strict(_, _, _, _)
find_min_from_strict(window, count, i, found) ==
    IF i >= count
    THEN found
    ELSE IF window[i] < found.value
         THEN find_min_from_strict(window, count, i + 1,
                                   [value |-> window[i], index |-> i])
         ELSE find_min_from_strict(window, count, i + 1, found)

_find_min_with_index_first(window, count) ==
    find_min_from_strict(window, count, 1, [value |-> window[0], index |-> 0])

\* The loop of _find_min_with_index from entry i, with min_value and
\* *min_index so far in found.
RECURSIVE find_min_from(_, _, _, _)
find_min_from(window, count, i, found) ==
    IF i >= count
    THEN found
    ELSE IF window[i] <= found.value
         THEN find_min_from(window, count, i + 1,
                            [value |-> window[i], index |-> i])
         ELSE find_min_from(window, count, i + 1, found)

\* value: the return value; index: *min_index.
_find_min_with_index(window, count) ==
    find_min_from(window, count, 1, [value |-> window[0], index |-> 0])

\* Mutant: a later entry replaces the maximum only when strictly larger.
RECURSIVE find_max_from_strict(_, _, _, _)
find_max_from_strict(window, count, i, found) ==
    IF i >= count
    THEN found
    ELSE IF window[i] > found.value
         THEN find_max_from_strict(window, count, i + 1,
                                   [value |-> window[i], index |-> i])
         ELSE find_max_from_strict(window, count, i + 1, found)

_find_max_with_index_first(window, count) ==
    find_max_from_strict(window, count, 1, [value |-> window[0], index |-> 0])

\* The loop of _find_max_with_index from entry i.
RECURSIVE find_max_from(_, _, _, _)
find_max_from(window, count, i, found) ==
    IF i >= count
    THEN found
    ELSE IF window[i] >= found.value
         THEN find_max_from(window, count, i + 1,
                            [value |-> window[i], index |-> i])
         ELSE find_max_from(window, count, i + 1, found)

\* value: the return value; index: *max_index.
_find_max_with_index(window, count) ==
    find_max_from(window, count, 1, [value |-> window[0], index |-> 0])

\* Mutant: the log position is taken modulo N as a non-negative number, so it
\* is never negative.
_activity_logging_handle_today_page_wraps(s, d) ==
    IF s.display_index = 0
    THEN [d EXCEPT !.top_left = "ACT",
                   !.top_right_kind = "day_back",
                   !.top_right = 0,
                   !.bottom_kind = IF s.show_emoticon THEN "mood" ELSE "minutes",
                   !.bottom_text =
                       IF s.show_emoticon
                       THEN _activity_logging_get_mood_face(s.active_minutes_today)
                       ELSE "",
                   !.bottom = IF s.show_emoticon THEN 0 ELSE s.active_minutes_today,
                   !.bars = NoBars,
                   !.colon = IF s.show_emoticon THEN TRUE ELSE @,
                   !.signal = TRUE]
    ELSE LET pos == (Int16(s.data_points) - s.display_index)
                        % ACTIVITY_LOGGING_NUM_DAYS
         IN  [d EXCEPT !.top_left = "ACT",
                       !.top_right_kind = "day_back",
                       !.top_right = s.display_index,
                       !.bottom_kind = IF pos < 0 THEN "no dat" ELSE "minutes",
                       !.bottom_text = IF pos < 0 THEN "no dat" ELSE "",
                       !.bottom = IF pos < 0 THEN 0 ELSE s.activity_log[pos],
                       !.bars = NoBars,
                       !.signal = FALSE]

\* The LCD after _activity_logging_handle_today_page, d being the LCD before.
_activity_logging_handle_today_page(s, d) ==
    IF s.display_index = 0
    THEN [d EXCEPT !.top_left = "ACT",
                   !.top_right_kind = "day_back",
                   !.top_right = 0,
                   !.bottom_kind = IF s.show_emoticon THEN "mood" ELSE "minutes",
                   !.bottom_text =
                       IF s.show_emoticon
                       THEN _activity_logging_get_mood_face(s.active_minutes_today)
                       ELSE "",
                   !.bottom = IF s.show_emoticon THEN 0 ELSE s.active_minutes_today,
                   !.bars = NoBars,
                   !.colon = IF s.show_emoticon THEN TRUE ELSE @,
                   !.signal = TRUE]
    ELSE LET pos == CRem(Int16(s.data_points) - s.display_index,
                         ACTIVITY_LOGGING_NUM_DAYS)
         IN  [d EXCEPT !.top_left = "ACT",
                       !.top_right_kind = "day_back",
                       !.top_right = s.display_index,
                       !.bottom_kind = IF pos < 0 THEN "no dat" ELSE "minutes",
                       !.bottom_text = IF pos < 0 THEN "no dat" ELSE "",
                       !.bottom = IF pos < 0 THEN 0 ELSE s.activity_log[pos],
                       !.bars = NoBars,
                       !.signal = FALSE]

\* The LCD after _activity_logging_handle_histogram_page at hour current_hour.
_activity_logging_handle_histogram_page(s, current_hour, d) ==
    LET window == histogram_data(s, current_hour)
        hourly == s.timeframe_mode = "12H"
        found  == IF s.histogram_view = HISTOGRAM_VIEW_MIN
                  THEN _find_min_with_index(window, WindowSize)
                  ELSE _find_max_with_index(window, WindowSize)
    IN  CASE s.histogram_view = HISTOGRAM_VIEW_CHART ->
                [d EXCEPT !.top_left = IF hourly THEN "HR" ELSE "DA",
                          !.top_right_kind = "count",
                          !.top_right = 12,
                          !.bottom_kind = "bars",
                          !.bottom_text = "",
                          !.bottom = 0,
                          !.bars = _draw_histogram(s, current_hour),
                          !.signal = hourly]
          [] s.histogram_view = HISTOGRAM_VIEW_MEDIAN ->
                [d EXCEPT !.top_left = "MED",
                          !.top_right_kind = "blank",
                          !.top_right = 0,
                          !.bottom_kind = "minutes",
                          !.bottom_text = "",
                          !.bottom = _calculate_median(window, WindowSize),
                          !.bars = NoBars,
                          !.signal = hourly]
          [] OTHER ->
                [d EXCEPT !.top_left = IF s.histogram_view = HISTOGRAM_VIEW_MIN
                                       THEN "MIN" ELSE "MAX",
                          !.top_right_kind = IF hourly THEN "hour" ELSE "day_back",
                          !.top_right = IF hourly
                                        THEN hour_index(current_hour, found.index)
                                        ELSE (12 - found.index) % U8,
                          !.bottom_kind = "minutes",
                          !.bottom_text = "",
                          !.bottom = found.value,
                          !.bars = NoBars,
                          !.signal = hourly]

\* What _activity_logging_handle_day_events draws for an event that finds the
\* struct s: out.display is the LCD, out.data the latest histogram window;
\* second is the seconds field of the clock.
_activity_logging_handle_day_events_lcd(s, event_type, second, current_hour, out) ==
    LET s2       == _activity_logging_handle_day_events(s, event_type)
        today(d) == [out EXCEPT !.display =
                        _activity_logging_handle_today_page(s2, d)]
    IN  CASE event_type = "EVENT_LIGHT_BUTTON_UP" ->
                IF s.display_index > 0 THEN today(out.display) ELSE out
          [] event_type = "EVENT_LIGHT_LONG_PRESS" ->
                [display |-> _activity_logging_handle_histogram_page(
                                 s2, current_hour, out.display),
                 data    |-> histogram_data(s2, current_hour)]
          [] event_type \in {"EVENT_ALARM_BUTTON_DOWN", "EVENT_ACTIVATE",
                             "EVENT_LOW_ENERGY_UPDATE", "EVENT_TIMEOUT"} ->
                today(out.display)
          [] event_type = "EVENT_TICK" ->
                LET d1 == IF second = 0 /\ s.display_index = 0
                          THEN _activity_logging_handle_today_page(s, out.display)
                          ELSE out.display
                IN  IF s.show_emoticon /\ s.emoticon_tick_count + 1 > 1
                    THEN today([d1 EXCEPT !.colon = FALSE])
                    ELSE [out EXCEPT !.display = d1]
          [] OTHER -> out

\* What _activity_logging_handle_histogram_events draws.
_activity_logging_handle_histogram_events_lcd(s, event_type, second, current_hour, out) ==
    LET s2   == _activity_logging_handle_histogram_events(s, event_type)
        page == [display |-> _activity_logging_handle_histogram_page(
                                 s2, current_hour, out.display),
                 data    |-> histogram_data(s2, current_hour)]
    IN  CASE event_type \in {"EVENT_LIGHT_BUTTON_UP", "EVENT_ALARM_BUTTON_DOWN",
                             "EVENT_ACTIVATE", "EVENT_LOW_ENERGY_UPDATE",
                             "EVENT_TIMEOUT"} ->
                page
          [] event_type = "EVENT_LIGHT_LONG_PRESS" ->
                [out EXCEPT !.display =
                    _activity_logging_handle_today_page(s2, out.display)]
          [] event_type = "EVENT_TICK" ->
                IF second = 0 /\ s.display_index = 0 THEN page ELSE out
          [] OTHER -> out

\* What activity_logging_face_loop draws: the mode's handler draws, the
\* background task does not.
activity_logging_face_loop_lcd(s, event_type, second, current_hour, out) ==
    IF s.mode = "MODE_DAY"
    THEN _activity_logging_handle_day_events_lcd(s, event_type, second,
                                                 current_hour, out)
    ELSE _activity_logging_handle_histogram_events_lcd(s, event_type, second,
                                                       current_hour, out)

(* ------------------------------------------- the sleep calculator face *)

\* static const uint16_t SLEEP_DURATIONS[]: minutes of sleep per option; the
\* entry of option i is SLEEP_DURATIONS[i + 1].
SLEEP_DURATIONS == <<1, 285, 375, 465, 555>>

\* sizeof(SLEEP_DURATIONS) / sizeof(SLEEP_DURATIONS[0])
SLEEP_CALCULATOR_FACE_MAX_OPTIONS == Len(SLEEP_DURATIONS)

\* setup with *context_ptr == NULL: memset to 0, then the default option.
sleep_calculator_face_setup ==
    [ current_option   |-> 2,
      reference_hour   |-> 0,
      reference_minute |-> 0,
      alarm_is_set     |-> FALSE,
      alarm_hour       |-> 0,
      alarm_minute     |-> 0 ]

\* Mutant: the hour of the wake time is not reduced modulo 24.
_sleep_calculator_face_update_display_no_day_wrap(s) ==
    LET duration      == SLEEP_DURATIONS[s.current_option + 1]
        total_minutes == s.reference_hour * MinutesPerHour + s.reference_minute
                             + duration
        calc_hour     == (total_minutes \div MinutesPerHour) % U8
        calc_minute   == (total_minutes % MinutesPerHour) % U8
    IN  [s EXCEPT !.alarm_hour = calc_hour, !.alarm_minute = calc_minute]

\* The wake time of the reference time and the selected option, stored as the
\* alarm time (both uint8_t).
_sleep_calculator_face_update_display(s) ==
    LET duration      == SLEEP_DURATIONS[s.current_option + 1]
        total_minutes == s.reference_hour * MinutesPerHour + s.reference_minute
                             + duration
        calc_hour     == ((total_minutes \div MinutesPerHour) % HoursPerDay) % U8
        calc_minute   == (total_minutes % MinutesPerHour) % U8
    IN  [s EXCEPT !.alarm_hour = calc_hour, !.alarm_minute = calc_minute]

\* Shows the stored alarm time; the struct is left alone.
_sleep_calculator_face_show_alarm(s) == s

\* activate: the reference time is now; the wake time is calculated unless an
\* alarm is set.
sleep_calculator_face_activate(s, now_hour, now_minute) ==
    LET s1 == [s EXCEPT !.reference_hour = now_hour,
                        !.reference_minute = now_minute]
    IN  IF s1.alarm_is_set
        THEN _sleep_calculator_face_show_alarm(s1)
        ELSE _sleep_calculator_face_update_display(s1)

\* Mutant: the alarm stays set after it has been played.
sleep_calculator_face_loop_keeps_alarm(s, event_type, now_hour, now_minute) ==
    CASE event_type = "EVENT_TICK" ->
             IF ~s.alarm_is_set /\ now_minute # s.reference_minute
             THEN _sleep_calculator_face_update_display(
                      [s EXCEPT !.reference_hour = now_hour,
                                !.reference_minute = now_minute])
             ELSE s
      [] event_type = "EVENT_ALARM_BUTTON_UP" ->
             _sleep_calculator_face_update_display(
                 [s EXCEPT !.alarm_is_set = FALSE,
                           !.current_option =
                               (@ + 1) % SLEEP_CALCULATOR_FACE_MAX_OPTIONS])
      [] event_type = "EVENT_ALARM_LONG_PRESS" ->
             _sleep_calculator_face_update_display(
                 [s EXCEPT !.alarm_is_set = TRUE])
      [] event_type = "EVENT_BACKGROUND_TASK" ->
             s
      [] OTHER -> s

\* loop: the struct after the face has handled event_type at now.
sleep_calculator_face_loop(s, event_type, now_hour, now_minute) ==
    CASE event_type = "EVENT_TICK" ->
             IF ~s.alarm_is_set /\ now_minute # s.reference_minute
             THEN _sleep_calculator_face_update_display(
                      [s EXCEPT !.reference_hour = now_hour,
                                !.reference_minute = now_minute])
             ELSE s
      [] event_type = "EVENT_ALARM_BUTTON_UP" ->
             _sleep_calculator_face_update_display(
                 [s EXCEPT !.alarm_is_set = FALSE,
                           !.current_option =
                               (@ + 1) % SLEEP_CALCULATOR_FACE_MAX_OPTIONS])
      [] event_type = "EVENT_ALARM_LONG_PRESS" ->
             _sleep_calculator_face_update_display(
                 [s EXCEPT !.alarm_is_set = TRUE])
      [] event_type = "EVENT_BACKGROUND_TASK" ->
             [s EXCEPT !.alarm_is_set = FALSE]
      [] OTHER -> s

\* advise: wants_background_task.
sleep_calculator_face_advise(s, now_hour, now_minute) ==
    /\ s.alarm_is_set
    /\ s.alarm_hour = now_hour
    /\ s.alarm_minute = now_minute

(* ------------------------------------------------------ the bytebase face *)

\* bytebase_mode_t
BYTEBASE_MODE_BINARY == 0

BYTEBASE_MODE_HEXADECIMAL == 1

BYTEBASE_MODE_DECIMAL == 2

BYTEBASE_MODE_ASCII == 3

BYTEBASE_NUM_MODES == 4

\* setup with *context_ptr == NULL.
bytebase_face_setup ==
    [ current_mode            |-> BYTEBASE_MODE_BINARY,
      current_digit           |-> 0,
      value                   |-> 42,
      editing                 |-> FALSE,
      quick_ticks_running     |-> FALSE,
      binary_show_high_nibble |-> FALSE ]

_abort_quick_ticks(s) == [s EXCEPT !.quick_ticks_running = FALSE]

\* value ^ (1 << bit) on a uint8_t.
ToggleBit(value, bit) ==
    IF (value \div (2 ^ bit)) % 2 = 1
    THEN value - 2 ^ bit
    ELSE (value + 2 ^ bit) % U8

\* The struct after the selected digit has been incremented.  value is a
\* uint8_t: each assignment to it keeps the low 8 bits of the int on its
\* right, and the comparisons with 255 read the value so stored.
_handle_digit_increment(s) ==
    LET v == s.value
    IN  CASE s.current_mode = BYTEBASE_MODE_DECIMAL ->
                 CASE s.current_digit = 0 ->
                          LET ones == ((v % 10) + 1) % 10
                              v1   == (((v \div 10) * 10) + ones) % U8
                          IN  [s EXCEPT !.value =
                                  IF v1 > 255 THEN ((v1 \div 10) * 10) % U8 ELSE v1]
                   [] s.current_digit = 1 ->
                          LET tens == (((v \div 10) % 10) + 1) % 10
                              v1   == ((v % 10) + ((v \div 100) * 100) + (tens * 10)) % U8
                          IN  [s EXCEPT !.value =
                                  IF v1 > 255
                                  THEN (((v1 \div 100) * 100) + (v1 % 10)) % U8
                                  ELSE v1]
                   [] s.current_digit = 2 ->
                          LET hundreds == (((v \div 100) % 10) + 1) % 10
                              v1       == ((v % 100) + (hundreds * 100)) % U8
                          IN  [s EXCEPT !.value =
                                  IF v1 > 255 THEN (v1 % 100) % U8 ELSE v1]
                   [] OTHER -> s
          [] s.current_mode = BYTEBASE_MODE_HEXADECIMAL ->
                 CASE s.current_digit = 0 ->
                          [s EXCEPT !.value =
                              ((v \div 16) * 16) + (((v % 16) + 1) % 16)]
                   [] s.current_digit = 1 ->
                          [s EXCEPT !.value =
                              (v % 16) + (((((v \div 16) % 16) + 1) % 16) * 16)]
                   [] OTHER -> s
          [] s.current_mode = BYTEBASE_MODE_BINARY ->
                 IF s.current_digit < 8
                 THEN [s EXCEPT !.value = ToggleBit(v, s.current_digit)]
                 ELSE s
          [] s.current_mode = BYTEBASE_MODE_ASCII ->
                 [s EXCEPT !.value = (v + 1) % 128]
          [] OTHER -> s

\* activate
bytebase_face_activate(s) ==
    _abort_quick_ticks([s EXCEPT !.editing = FALSE, !.current_digit = 0])

\* resign
bytebase_face_resign(s) ==
    [_abort_quick_ticks(s) EXCEPT !.editing = FALSE]

\* LIGHT while editing: the number of digits of the mode.
max_digits(current_mode) ==
    IF current_mode = BYTEBASE_MODE_HEXADECIMAL
    THEN 2
    ELSE IF current_mode = BYTEBASE_MODE_BINARY THEN 8 ELSE 3

\* Mutant: the LIGHT button cycles three modes and never reaches ASCII.
bytebase_face_loop_three_modes(s, event_type, alarm_held) ==
    CASE event_type = "EVENT_TICK" ->
             IF s.quick_ticks_running
             THEN IF alarm_held
                  THEN _handle_digit_increment(s)
                  ELSE _abort_quick_ticks(s)
             ELSE s
      [] event_type = "EVENT_MODE_BUTTON_UP" ->
             _abort_quick_ticks(s)
      [] event_type = "EVENT_LIGHT_BUTTON_DOWN" ->
             IF s.editing
             THEN IF s.current_mode = BYTEBASE_MODE_ASCII
                  THEN s
                  ELSE LET digit == (s.current_digit + 1) % max_digits(s.current_mode)
                       IN  [s EXCEPT
                               !.current_digit = digit,
                               !.binary_show_high_nibble =
                                   IF s.current_mode = BYTEBASE_MODE_BINARY
                                   THEN IF digit = 4
                                        THEN TRUE
                                        ELSE IF digit = 0 THEN FALSE ELSE @
                                   ELSE @]
             ELSE [s EXCEPT
                      !.current_mode = (@ + 1) % (BYTEBASE_NUM_MODES - 1),
                      !.current_digit = 0]
      [] event_type = "EVENT_ALARM_LONG_PRESS" ->
             IF s.current_mode = BYTEBASE_MODE_ASCII
             THEN s
             ELSE IF ~s.editing
                  THEN [s EXCEPT !.editing = TRUE,
                                 !.current_digit = 0,
                                 !.binary_show_high_nibble = FALSE]
                  ELSE _abort_quick_ticks(
                           [s EXCEPT !.editing = FALSE, !.current_digit = 0])
      [] event_type = "EVENT_ALARM_LONG_UP" ->
             IF s.editing THEN _abort_quick_ticks(s) ELSE s
      [] event_type = "EVENT_ALARM_BUTTON_UP" ->
             IF s.current_mode = BYTEBASE_MODE_ASCII
             THEN s
             ELSE IF s.editing
                  THEN _handle_digit_increment(s)
                  ELSE IF s.current_mode = BYTEBASE_MODE_BINARY
                       THEN [s EXCEPT !.binary_show_high_nibble = ~@]
                       ELSE s
      [] event_type = "EVENT_TIMEOUT" ->
             [_abort_quick_ticks(s) EXCEPT !.editing = FALSE]
      [] OTHER -> s

\* Mutant: the ALARM long press enters edit mode in ASCII mode too.
bytebase_face_loop_edits_ascii(s, event_type, alarm_held) ==
    CASE event_type = "EVENT_TICK" ->
             IF s.quick_ticks_running
             THEN IF alarm_held
                  THEN _handle_digit_increment(s)
                  ELSE _abort_quick_ticks(s)
             ELSE s
      [] event_type = "EVENT_MODE_BUTTON_UP" ->
             _abort_quick_ticks(s)
      [] event_type = "EVENT_LIGHT_BUTTON_DOWN" ->
             IF s.editing
             THEN IF s.current_mode = BYTEBASE_MODE_ASCII
                  THEN s
                  ELSE LET digit == (s.current_digit + 1) % max_digits(s.current_mode)
                       IN  [s EXCEPT
                               !.current_digit = digit,
                               !.binary_show_high_nibble =
                                   IF s.current_mode = BYTEBASE_MODE_BINARY
                                   THEN IF digit = 4
                                        THEN TRUE
                                        ELSE IF digit = 0 THEN FALSE ELSE @
                                   ELSE @]
             ELSE [s EXCEPT
                      !.current_mode = (@ + 1) % BYTEBASE_NUM_MODES,
                      !.current_digit = 0]
      [] event_type = "EVENT_ALARM_LONG_PRESS" ->
             IF FALSE
             THEN s
             ELSE IF ~s.editing
                  THEN [s EXCEPT !.editing = TRUE,
                                 !.current_digit = 0,
                                 !.binary_show_high_nibble = FALSE]
                  ELSE _abort_quick_ticks(
                           [s EXCEPT !.editing = FALSE, !.current_digit = 0])
      [] event_type = "EVENT_ALARM_LONG_UP" ->
             IF s.editing THEN _abort_quick_ticks(s) ELSE s
      [] event_type = "EVENT_ALARM_BUTTON_UP" ->
             IF s.current_mode = BYTEBASE_MODE_ASCII
             THEN s
             ELSE IF s.editing
                  THEN _handle_digit_increment(s)
                  ELSE IF s.current_mode = BYTEBASE_MODE_BINARY
                       THEN [s EXCEPT !.binary_show_high_nibble = ~@]
                       ELSE s
      [] event_type = "EVENT_TIMEOUT" ->
             [_abort_quick_ticks(s) EXCEPT !.editing = FALSE]
      [] OTHER -> s

\* loop: the struct after the face has handled event_type; alarm_held is
\* what HAL_GPIO_BTN_ALARM_read returns.
bytebase_face_loop(s, event_type, alarm_held) ==
    CASE event_type = "EVENT_TICK" ->
             IF s.quick_ticks_running
             THEN IF alarm_held
                  THEN _handle_digit_increment(s)
                  ELSE _abort_quick_ticks(s)
             ELSE s
      [] event_type = "EVENT_MODE_BUTTON_UP" ->
             _abort_quick_ticks(s)
      [] event_type = "EVENT_LIGHT_BUTTON_DOWN" ->
             IF s.editing
             THEN IF s.current_mode = BYTEBASE_MODE_ASCII
                  THEN s
                  ELSE LET digit == (s.current_digit + 1) % max_digits(s.current_mode)
                       IN  [s EXCEPT
                               !.current_digit = digit,
                               !.binary_show_high_nibble =
                                   IF s.current_mode = BYTEBASE_MODE_BINARY
                                   THEN IF digit = 4
                                        THEN TRUE
                                        ELSE IF digit = 0 THEN FALSE ELSE @
                                   ELSE @]
             ELSE [s EXCEPT
                      !.current_mode = (@ + 1) % BYTEBASE_NUM_MODES,
                      !.current_digit = 0]
      [] event_type = "EVENT_ALARM_LONG_PRESS" ->
             IF s.current_mode = BYTEBASE_MODE_ASCII
             THEN s
             ELSE IF ~s.editing
                  THEN [s EXCEPT !.editing = TRUE,
                                 !.current_digit = 0,
                                 !.binary_show_high_nibble = FALSE]
                  ELSE _abort_quick_ticks(
                           [s EXCEPT !.editing = FALSE, !.current_digit = 0])
      [] event_type = "EVENT_ALARM_LONG_UP" ->
             IF s.editing THEN _abort_quick_ticks(s) ELSE s
      [] event_type = "EVENT_ALARM_BUTTON_UP" ->
             IF s.current_mode = BYTEBASE_MODE_ASCII
             THEN s
             ELSE IF s.editing
                  THEN _handle_digit_increment(s)
                  ELSE IF s.current_mode = BYTEBASE_MODE_BINARY
                       THEN [s EXCEPT !.binary_show_high_nibble = ~@]
                       ELSE s
      [] event_type = "EVENT_TIMEOUT" ->
             [_abort_quick_ticks(s) EXCEPT !.editing = FALSE]
      [] OTHER -> s

(* ------------------------------------------------------------- the host *)

\* The clock one minute after h:m.
NextMinute(h, m) ==
    IF m + 1 = MinutesPerHour
    THEN <<(h + 1) % HoursPerDay, 0>>
    ELSE <<h, m + 1>>

Init ==
    /\ state = activity_logging_face_setup
    /\ hour = 23 /\ minute = 57
    /\ wants_background_task = FALSE
    /\ pending = FALSE
    /\ pending_age = 0
    /\ foreground = FALSE
    /\ display = BlankDisplay
    /\ data = NoData
    /\ elapsed = 0
    /\ midnights = 0
    /\ requests = 0
    /\ delivered = <<>>
    /\ commits_today = 0
    /\ prev_reading = FALSE
    /\ amt_at_request = 0
    /\ day_credits = 0
    /\ closed_day_credits = 0
    /\ slot_credits = [h \in 0..(HoursPerDay - 1) |-> 0]
    /\ slot_reset_at = [h \in 0..(HoursPerDay - 1) |-> 0]
    /\ twin = state
    /\ timed_out = FALSE
    /\ sleep_state = sleep_calculator_face_setup
    /\ sleep_foreground = FALSE
    /\ sleep_elapsed = 0
    /\ sleep_fires = 0
    /\ day_ticks = 0
    /\ bytebase_state = bytebase_face_setup
    /\ bytebase_foreground = FALSE

\* The clock shows t = <<hour, minute>> and the host asks the face for its
\* advisory; a4_read is the accelerometer's inactivity pin.
Advise(t, a4_read) ==
    LET s2   == activity_logging_face_advise(state, t[1], t[2], a4_read)
        w    == advise_wants_background_task(t[1], t[2])
        mid  == t[1] = 0 /\ t[2] = 0
        cred == IF s2.active_minutes_today # state.active_minutes_today THEN 1 ELSE 0
    IN  /\ pending => pending_age < MaxDelay
        /\ state' = s2
        /\ hour' = t[1]
        /\ minute' = t[2]
        /\ wants_background_task' = w
        /\ pending' = (pending \/ w)
        /\ pending_age' = IF w THEN 0 ELSE IF pending THEN pending_age + 1 ELSE 0
        /\ elapsed' = elapsed + 1
        /\ midnights' = midnights + (IF mid THEN 1 ELSE 0)
        /\ requests' = requests + (IF w THEN 1 ELSE 0)
        /\ commits_today' = IF mid THEN 0 ELSE commits_today
        /\ prev_reading' = ~a4_read
        /\ amt_at_request' = IF w THEN s2.active_minutes_today ELSE amt_at_request
        /\ day_credits' = IF w THEN 0 ELSE day_credits + cred
        /\ closed_day_credits' = IF w THEN day_credits + cred ELSE closed_day_credits
        /\ slot_credits' =
               [slot_credits EXCEPT
                   ![t[1]] = (IF t[2] = 0 THEN 0 ELSE @) + cred]
        /\ slot_reset_at' =
               IF t[2] = 0
               THEN [slot_reset_at EXCEPT ![t[1]] = elapsed + 1]
               ELSE slot_reset_at
        /\ twin' = activity_logging_face_advise(twin, t[1], t[2], a4_read)
        /\ UNCHANGED <<foreground, delivered, timed_out, day_ticks>>
        /\ UNCHANGED lcd
        /\ UNCHANGED sleep
        /\ UNCHANGED bytebase

\* Top of a minute: the clock moves on one minute.
TopOfMinute(a4_read) == Advise(NextMinute(hour, minute), a4_read)

\* The LCD and the window after the loop has handled event_type.
Draw(s, event_type, second) ==
    LET out == activity_logging_face_loop_lcd(
                   s, event_type, second, hour,
                   [display |-> display, data |-> data])
    IN  /\ display' = out.display
        /\ data' = out.data

\* The host delivers EVENT_BACKGROUND_TASK to the face's loop.
Deliver ==
    /\ state' = activity_logging_face_loop(state, "EVENT_BACKGROUND_TASK")
    /\ Draw(state, "EVENT_BACKGROUND_TASK", 0)
    /\ pending' = FALSE
    /\ pending_age' = 0
    /\ delivered' = Append(delivered, state.active_minutes_today)
    /\ commits_today' = commits_today + 1
    /\ UNCHANGED <<hour, minute, wants_background_task, foreground, elapsed,
                   midnights, requests, prev_reading, amt_at_request,
                   day_credits, closed_day_credits, slot_credits,
                   slot_reset_at>>
    /\ twin' = activity_logging_face_loop(twin, "EVENT_BACKGROUND_TASK")
    /\ timed_out' = FALSE
    /\ UNCHANGED day_ticks
    /\ UNCHANGED sleep
    /\ UNCHANGED bytebase

\* The background task the advisory asked for.
BackgroundTask ==
    /\ pending
    /\ Deliver

\* The host never fulfils the request (the watch was off at midnight).
DropBackgroundTask ==
    /\ pending
    /\ pending' = FALSE
    /\ pending_age' = 0
    /\ UNCHANGED <<state, hour, minute, wants_background_task, foreground,
                   timed_out, day_ticks>>
    /\ UNCHANGED lcd
    /\ UNCHANGED hist
    /\ UNCHANGED sleep
    /\ UNCHANGED bytebase

\* A host that delivers EVENT_BACKGROUND_TASK again, with no request open.
RedeliverBackgroundTask ==
    /\ ~pending
    /\ Len(delivered) > 0
    /\ Deliver

\* The face comes to the foreground: activate, then EVENT_ACTIVATE.
Activate ==
    /\ state' = activity_logging_face_loop(activity_logging_face_activate(state),
                                           "EVENT_ACTIVATE")
    /\ Draw(activity_logging_face_activate(state), "EVENT_ACTIVATE", 0)
    /\ foreground' = TRUE
    /\ timed_out' = FALSE
    /\ day_ticks' = 0
    /\ UNCHANGED <<hour, minute, wants_background_task, pending, pending_age>>
    /\ UNCHANGED hist
    /\ UNCHANGED sleep
    /\ UNCHANGED bytebase

\* An event delivered to the face in the foreground; second is the seconds
\* field of the clock when the event is handled.
Event(event_type, second) ==
    /\ foreground
    /\ state' = activity_logging_face_loop(state, event_type)
    /\ Draw(state, event_type, second)
    /\ timed_out' = (event_type = "EVENT_TIMEOUT")
    /\ day_ticks' = IF /\ event_type = "EVENT_TICK"
                       /\ state.mode = "MODE_DAY"
                       /\ day_ticks < 2
                    THEN day_ticks + 1
                    ELSE day_ticks
    /\ UNCHANGED host
    /\ UNCHANGED hist
    /\ UNCHANGED sleep
    /\ UNCHANGED bytebase

LightButtonDown == Event("EVENT_LIGHT_BUTTON_DOWN", 0)
LightButtonUp == Event("EVENT_LIGHT_BUTTON_UP", 0)
LightLongPress == Event("EVENT_LIGHT_LONG_PRESS", 0)
AlarmButtonDown == Event("EVENT_ALARM_BUTTON_DOWN", 0)
Tick == \E second \in {0, 1} : Event("EVENT_TICK", second)
LowEnergyUpdate == Event("EVENT_LOW_ENERGY_UPDATE", 0)
Timeout == Event("EVENT_TIMEOUT", 0)

(* --------------------------------------- the host of the sleep calculator *)

\* The sleep calculator comes to the foreground: activate, then EVENT_ACTIVATE.
SleepActivate ==
    /\ sleep_state' = sleep_calculator_face_loop(
                          sleep_calculator_face_activate(sleep_state, hour, minute),
                          "EVENT_ACTIVATE", hour, minute)
    /\ sleep_foreground' = TRUE
    /\ UNCHANGED <<hour, minute, sleep_elapsed, sleep_fires>>
    /\ UNCHANGED bytebase
    /\ UNCHANGED activity
    /\ UNCHANGED lcd
    /\ UNCHANGED hist

\* An event delivered to the sleep calculator in the foreground;
\* EVENT_TIMEOUT ends with movement_move_to_face(0).
SleepEvent(event_type) ==
    /\ sleep_foreground
    /\ sleep_state' = sleep_calculator_face_loop(sleep_state, event_type,
                                                 hour, minute)
    /\ sleep_foreground' = (event_type # "EVENT_TIMEOUT")
    /\ sleep_fires' = IF event_type = "EVENT_ALARM_LONG_PRESS"
                      THEN 0
                      ELSE sleep_fires
    /\ UNCHANGED <<hour, minute, sleep_elapsed>>
    /\ UNCHANGED bytebase
    /\ UNCHANGED activity
    /\ UNCHANGED lcd
    /\ UNCHANGED hist

SleepTick == SleepEvent("EVENT_TICK")
SleepLightButtonDown == SleepEvent("EVENT_LIGHT_BUTTON_DOWN")
SleepAlarmButtonUp == SleepEvent("EVENT_ALARM_BUTTON_UP")
SleepAlarmLongPress == SleepEvent("EVENT_ALARM_LONG_PRESS")
SleepTimeout == SleepEvent("EVENT_TIMEOUT")

\* The host delivers the background task the sleep calculator's advisory asks
\* for in the current minute, whether or not the face is in the foreground.
SleepBackgroundTask ==
    /\ sleep_calculator_face_advise(sleep_state, hour, minute)
    /\ sleep_state' = sleep_calculator_face_loop(sleep_state,
                                                 "EVENT_BACKGROUND_TASK",
                                                 hour, minute)
    /\ sleep_fires' = sleep_fires + 1
    /\ UNCHANGED <<hour, minute, sleep_foreground, sleep_elapsed>>
    /\ UNCHANGED bytebase
    /\ UNCHANGED activity
    /\ UNCHANGED lcd
    /\ UNCHANGED hist

\* The clock moves on one minute.
SleepMinute ==
    /\ hour' = NextMinute(hour, minute)[1]
    /\ minute' = NextMinute(hour, minute)[2]
    /\ sleep_elapsed' = sleep_elapsed + 1
    /\ UNCHANGED <<sleep_state, sleep_foreground, sleep_fires>>
    /\ UNCHANGED bytebase
    /\ UNCHANGED activity
    /\ UNCHANGED lcd
    /\ UNCHANGED hist

(* ------------------------------------------------ the host of bytebase *)

\* The bytebase face comes to the display: activate, then EVENT_ACTIVATE.
BytebaseActivate ==
    /\ ~bytebase_foreground
    /\ bytebase_state' = bytebase_face_loop(bytebase_face_activate(bytebase_state),
                                            "EVENT_ACTIVATE", FALSE)
    /\ bytebase_foreground' = TRUE
    /\ UNCHANGED <<hour, minute>>
    /\ UNCHANGED activity
    /\ UNCHANGED lcd
    /\ UNCHANGED hist
    /\ UNCHANGED sleep

\* An event delivered to the bytebase face on the display.  After
\* EVENT_MODE_BUTTON_UP and EVENT_TIMEOUT the host moves to another face and
\* calls resign.
BytebaseEvent(event_type, alarm_held) ==
    LET leaves == event_type \in {"EVENT_MODE_BUTTON_UP", "EVENT_TIMEOUT"}
        s2     == bytebase_face_loop(bytebase_state, event_type, alarm_held)
    IN  /\ bytebase_foreground
        /\ bytebase_state' = IF leaves THEN bytebase_face_resign(s2) ELSE s2
        /\ bytebase_foreground' = ~leaves
        /\ UNCHANGED <<hour, minute>>
        /\ UNCHANGED activity
        /\ UNCHANGED lcd
        /\ UNCHANGED hist
        /\ UNCHANGED sleep

BytebaseTick == \E alarm_held \in BOOLEAN : BytebaseEvent("EVENT_TICK", alarm_held)
BytebaseModeButtonUp == BytebaseEvent("EVENT_MODE_BUTTON_UP", FALSE)
BytebaseLightButtonDown == BytebaseEvent("EVENT_LIGHT_BUTTON_DOWN", FALSE)
BytebaseAlarmLongPress == BytebaseEvent("EVENT_ALARM_LONG_PRESS", TRUE)
BytebaseAlarmLongUp == BytebaseEvent("EVENT_ALARM_LONG_UP", FALSE)
BytebaseAlarmButtonUp == BytebaseEvent("EVENT_ALARM_BUTTON_UP", FALSE)
BytebaseTimeout == BytebaseEvent("EVENT_TIMEOUT", FALSE)

(* -------------------------------------------------------- specifications *)

\* Spec: a few minutes around midnight, any motion readings, any user input,
\* a host that delivers each requested background task at most once.
Next ==
    \/ (elapsed < ShortRun /\ \E a4_read \in BOOLEAN : TopOfMinute(a4_read))
    \/ BackgroundTask
    \/ DropBackgroundTask
    \/ Activate
    \/ LightButtonDown
    \/ LightButtonUp
    \/ LightLongPress
    \/ AlarmButtonDown
    \/ Tick
    \/ LowEnergyUpdate
    \/ Timeout

Spec == Init /\ [][Next]_vars

\* SpecMinutely: two days of minutes, one advisory per minute, a wearer who
\* moves all day except possibly around midnight, a host that delivers each
\* requested background task at most once, late or never.
Readings(h, m) ==
    IF \/ (h = 0 /\ m < FreeMinutes)
       \/ (h = HoursPerDay - 1 /\ m >= MinutesPerHour - FreeMinutes)
    THEN BOOLEAN
    ELSE {FALSE}

NextMinutely ==
    \/ (/\ elapsed < LongRun
        /\ \E a4_read \in Readings(NextMinute(hour, minute)[1],
                                    NextMinute(hour, minute)[2]) :
               TopOfMinute(a4_read))
    \/ BackgroundTask
    \/ DropBackgroundTask

SpecMinutely == Init /\ [][NextMinutely]_vars

\* SpecRing: a host that delivers EVENT_BACKGROUND_TASK whenever it likes,
\* until the ring has wrapped.
NextRing ==
    \/ (elapsed < RingRun /\ \E a4_read \in BOOLEAN : TopOfMinute(a4_read))
    \/ (Len(delivered) < N + ExtraCommits /\ BackgroundTask)
    \/ (Len(delivered) < N + ExtraCommits /\ RedeliverBackgroundTask)

SpecRing == Init /\ [][NextRing]_vars

\* SpecDays: the face after a number of days of use, then any user input.
\* The total the k-th commit stored follows one of DayPatterns: all different
\* and non-zero, every other day without activity, or the same every day.
DayPatterns == 0..2

DayTotal(pattern, k) ==
    CASE pattern = 0 -> 10 * k
      [] pattern = 1 -> IF k % 2 = 1 THEN 0 ELSE 40 + k
      [] OTHER -> 200

\* The struct after the sampler has counted each total of totals and the
\* background task has committed it.
RECURSIVE AfterCommits(_, _)
AfterCommits(s, totals) ==
    IF totals = <<>>
    THEN s
    ELSE AfterCommits(
             background_task([s EXCEPT !.active_minutes_today = Head(totals)]),
             Tail(totals))

InitDays ==
    \E pattern \in DayPatterns, c \in 0..(N + ExtraCommits) :
        /\ delivered = [k \in 1..c |-> DayTotal(pattern, k)]
        /\ state = AfterCommits(activity_logging_face_setup, delivered)
        /\ hour = 23 /\ minute = 57
        /\ wants_background_task = FALSE
        /\ pending = FALSE
        /\ pending_age = 0
        /\ foreground = FALSE
        /\ display = BlankDisplay
        /\ data = NoData
        /\ elapsed = 0
        /\ midnights = c
        /\ requests = c
        /\ commits_today = 0
        /\ prev_reading = FALSE
        /\ amt_at_request = 0
        /\ day_credits = 0
        /\ closed_day_credits = 0
        /\ slot_credits = [h \in 0..(HoursPerDay - 1) |-> 0]
        /\ slot_reset_at = [h \in 0..(HoursPerDay - 1) |-> 0]
        /\ twin = state
        /\ timed_out = FALSE
        /\ sleep_state = sleep_calculator_face_setup
        /\ sleep_foreground = FALSE
        /\ sleep_elapsed = 0
        /\ sleep_fires = 0
        /\ day_ticks = 0
        /\ bytebase_state = bytebase_face_setup
        /\ bytebase_foreground = FALSE

NextDays ==
    \/ Activate
    \/ LightButtonUp
    \/ LightLongPress
    \/ AlarmButtonDown
    \/ LowEnergyUpdate
    \/ Timeout

SpecDays == InitDays /\ [][NextDays]_vars

\* SpecHourly: the face in histogram mode with the hourly counts of a day of
\* use, then the events that draw its views.
\* The counts a window is filled with when every entry is one of two values.
StatValues == {3, 7}

\* The window 1, 2, ..., 12.
Ascending == [i \in 0..(WindowSize - 1) |-> i + 1]

\* Eleven entries of 5 followed by one of 4.
FiveFour == [i \in 0..(WindowSize - 1) |-> IF i = WindowSize - 1 THEN 4 ELSE 5]

\* The window 3, 7, 3, 7, ...
Alternating == [i \in 0..(WindowSize - 1) |-> IF i % 2 = 0 THEN 3 ELSE 7]

StatWindows ==
    [0..(WindowSize - 1) -> StatValues] \cup {Ascending, FiveFour}

\* Hourly counts whose 12-hour window at 11:xx is w.
HourlyOfWindow(w) ==
    [h \in 0..(HoursPerDay - 1) |-> IF h < WindowSize THEN w[h] ELSE 0]

\* Hourly counts for any hour of the day: every slot different, two values
\* in turn, every slot the same.
HourlyPatterns ==
    { [h \in 0..(HoursPerDay - 1) |-> h + 1],
      [h \in 0..(HoursPerDay - 1) |-> IF h % 2 = 0 THEN 3 ELSE 7],
      [h \in 0..(HoursPerDay - 1) |-> 5] }

HourlyInputs ==
    {[hour |-> 11, hourly_data |-> HourlyOfWindow(w)] : w \in StatWindows}
        \cup [hour : 0..(HoursPerDay - 1), hourly_data : HourlyPatterns]

InitHourly ==
    \E input \in HourlyInputs :
        /\ state = [activity_logging_face_setup EXCEPT
                        !.mode = "MODE_HISTOGRAM",
                        !.hourly_data = input.hourly_data]
        /\ hour = input.hour /\ minute = 30
        /\ wants_background_task = FALSE
        /\ pending = FALSE
        /\ pending_age = 0
        /\ foreground = FALSE
        /\ display = BlankDisplay
        /\ data = NoData
        /\ elapsed = 0
        /\ midnights = 0
        /\ requests = 0
        /\ delivered = <<>>
        /\ commits_today = 0
        /\ prev_reading = FALSE
        /\ amt_at_request = 0
        /\ day_credits = 0
        /\ closed_day_credits = 0
        /\ slot_credits = input.hourly_data
        /\ slot_reset_at = [h \in 0..(HoursPerDay - 1) |-> 0]
        /\ twin = state
        /\ timed_out = FALSE
        /\ sleep_state = sleep_calculator_face_setup
        /\ sleep_foreground = FALSE
        /\ sleep_elapsed = 0
        /\ sleep_fires = 0
        /\ day_ticks = 0
        /\ bytebase_state = bytebase_face_setup
        /\ bytebase_foreground = FALSE

NextHourly ==
    \/ Activate
    \/ LightButtonUp
    \/ LowEnergyUpdate

SpecHourly == InitHourly /\ [][NextHourly]_vars

\* SpecFeed: FeedSamples advisory calls in a row, motion present at each, the
\* clock showing hour FeedHour at every one of them: it starts a minute before
\* the hour, moves on a minute per call, and each time it would leave the hour
\* it is set back to minute 0 or minute 1 of the hour.  No background task.
FeedClock ==
    IF hour = FeedHour /\ minute + 1 < MinutesPerHour
    THEN {<<FeedHour, minute + 1>>}
    ELSE {<<FeedHour, 0>>, <<FeedHour, 1>>}

InitFeed ==
    /\ state = activity_logging_face_setup
    /\ hour = (FeedHour + HoursPerDay - 1) % HoursPerDay
    /\ minute = MinutesPerHour - 1
    /\ wants_background_task = FALSE
    /\ pending = FALSE
    /\ pending_age = 0
    /\ foreground = FALSE
    /\ display = BlankDisplay
    /\ data = NoData
    /\ elapsed = 0
    /\ midnights = 0
    /\ requests = 0
    /\ delivered = <<>>
    /\ commits_today = 0
    /\ prev_reading = FALSE
    /\ amt_at_request = 0
    /\ day_credits = 0
    /\ closed_day_credits = 0
    /\ slot_credits = [h \in 0..(HoursPerDay - 1) |-> 0]
    /\ slot_reset_at = [h \in 0..(HoursPerDay - 1) |-> 0]
    /\ twin = state
    /\ timed_out = FALSE
    /\ sleep_state = sleep_calculator_face_setup
    /\ sleep_foreground = FALSE
    /\ sleep_elapsed = 0
    /\ sleep_fires = 0
    /\ day_ticks = 0
    /\ bytebase_state = bytebase_face_setup
    /\ bytebase_foreground = FALSE

NextFeed ==
    /\ elapsed < FeedSamples
    /\ \E t \in FeedClock : Advise(t, FALSE)

SpecFeed == InitFeed /\ [][NextFeed]_vars

\* SpecSleep: the sleep calculator from setup, the clock at any hour and at a
\* minute on either side of each carry into the hour that the durations
\* produce, then SleepRun minutes of any user input.
SleepMinutes == {0, 14, 15, 30, 44, 45, 58, 59}

InitSleep ==
    \E h \in 0..(HoursPerDay - 1), m \in SleepMinutes :
        /\ state = activity_logging_face_setup
        /\ hour = h /\ minute = m
        /\ wants_background_task = FALSE
        /\ pending = FALSE
        /\ pending_age = 0
        /\ foreground = FALSE
        /\ display = BlankDisplay
        /\ data = NoData
        /\ elapsed = 0
        /\ midnights = 0
        /\ requests = 0
        /\ delivered = <<>>
        /\ commits_today = 0
        /\ prev_reading = FALSE
        /\ amt_at_request = 0
        /\ day_credits = 0
        /\ closed_day_credits = 0
        /\ slot_credits = [k \in 0..(HoursPerDay - 1) |-> 0]
        /\ slot_reset_at = [k \in 0..(HoursPerDay - 1) |-> 0]
        /\ twin = state
        /\ timed_out = FALSE
        /\ sleep_state = sleep_calculator_face_setup
        /\ sleep_foreground = FALSE
        /\ sleep_elapsed = 0
        /\ sleep_fires = 0
        /\ day_ticks = 0
        /\ bytebase_state = bytebase_face_setup
        /\ bytebase_foreground = FALSE

NextSleep ==
    \/ (sleep_elapsed < SleepRun /\ SleepMinute)
    \/ SleepActivate
    \/ SleepTick
    \/ SleepLightButtonDown
    \/ SleepAlarmButtonUp
    \/ SleepAlarmLongPress
    \/ SleepTimeout
    \/ SleepBackgroundTask

SpecSleep == InitSleep /\ [][NextSleep]_vars

\* SpecBytebase: the bytebase face holding any value a uint8_t can hold, then
\* any user input.
InitBytebase ==
    \E value \in 0..(U8 - 1) :
        /\ state = activity_logging_face_setup
        /\ hour = 23 /\ minute = 57
        /\ wants_background_task = FALSE
        /\ pending = FALSE
        /\ pending_age = 0
        /\ foreground = FALSE
        /\ display = BlankDisplay
        /\ data = NoData
        /\ elapsed = 0
        /\ midnights = 0
        /\ requests = 0
        /\ delivered = <<>>
        /\ commits_today = 0
        /\ prev_reading = FALSE
        /\ amt_at_request = 0
        /\ day_credits = 0
        /\ closed_day_credits = 0
        /\ slot_credits = [h \in 0..(HoursPerDay - 1) |-> 0]
        /\ slot_reset_at = [h \in 0..(HoursPerDay - 1) |-> 0]
        /\ twin = state
        /\ timed_out = FALSE
        /\ sleep_state = sleep_calculator_face_setup
        /\ sleep_foreground = FALSE
        /\ sleep_elapsed = 0
        /\ sleep_fires = 0
        /\ day_ticks = 0
        /\ bytebase_state = [bytebase_face_setup EXCEPT !.value = value]
        /\ bytebase_foreground = FALSE

NextBytebase ==
    \/ BytebaseActivate
    \/ BytebaseTick
    \/ BytebaseModeButtonUp
    \/ BytebaseLightButtonDown
    \/ BytebaseAlarmLongPress
    \/ BytebaseAlarmLongUp
    \/ BytebaseAlarmButtonUp
    \/ BytebaseTimeout

SpecBytebase == InitBytebase /\ [][NextBytebase]_vars

(* ---------------------------------------------------------------- claims *)

\* A step that delivers EVENT_BACKGROUND_TASK to the face.
IsDelivery == Len(delivered') = Len(delivered) + 1

\* A step that is one call of activity_logging_face_advise.
IsAdvise == elapsed' = elapsed + 1

\* C1: handling EVENT_BACKGROUND_TASK stores the accumulator at slot
\* data_points mod N, adds one to data_points and clears the accumulator; no
\* other slot of activity_log, no slot of hourly_data and no other field of
\* the struct changes, whichever mode the face is in.
C1_CommitEffect ==
    [][IsDelivery =>
         state' = [state EXCEPT
                     !.activity_log =
                         [@ EXCEPT ![state.data_points % N] =
                                       state.active_minutes_today],
                     !.data_points = @ + 1,
                     !.active_minutes_today = 0]]_vars

\* A commit of a non-zero total has happened while the face shows the
\* histogram.
C1_Witness ==
    /\ Len(delivered) = 1
    /\ delivered[1] = 2
    /\ state.mode = "MODE_HISTOGRAM"
    /\ state.activity_log[0] = 2
    /\ state.data_points = 1
    /\ state.active_minutes_today = 0

\* C2: a call of the sampler credits the minute (accumulator + 1, the current
\* hour's slot + 1 counted from its value after the minute-0 reset) exactly
\* when this minute and the minute before both reported motion; otherwise
\* neither counter is raised.
C2_DebounceCredit ==
    [][IsAdvise =>
         LET both == prev_reading /\ prev_reading'
             inc  == IF both THEN 1 ELSE 0
             base == IF minute' = 0 THEN 0 ELSE state.hourly_data[hour']
         IN  /\ state'.active_minutes_today = state.active_minutes_today + inc
             /\ state'.hourly_data[hour'] = base + inc]_vars

\* Three calls: no motion, motion, motion; the third is the first credited.
C2_Witness ==
    /\ elapsed = 3
    /\ prev_reading
    /\ state.previous_minute_was_active
    /\ state.active_minutes_today = 1
    /\ state.hourly_data[0] = 1

\* C3: an EVENT_BACKGROUND_TASK delivered while no request is open (a second
\* delivery for the same midnight) leaves data_points and activity_log as
\* they are.
C3_SecondDeliveryIsNoOp ==
    [][(IsDelivery /\ ~pending) =>
         /\ state'.data_points = state.data_points
         /\ state'.activity_log = state.activity_log]_vars

Min(a, b) == IF a < b THEN a ELSE b

\* C4: after c commits, for every j in 1..min(c, N) the slot (c - j) mod N
\* holds the total stored by the j-th most recent commit, and data_points = c.
C4_RingPlacement ==
    LET c == Len(delivered)
    IN  /\ state.data_points = c
        /\ \A j \in 1..Min(c, N) :
               state.activity_log[(c - j) % N] = delivered[c - j + 1]

\* N + 3 commits: the first total (2) has been overwritten in slot 0 by the
\* (N+1)-th (1), and the three most recent sit in slots 2, 1, 0.
C4_Witness ==
    /\ Len(delivered) = N + 3
    /\ delivered[1] = 2
    /\ delivered[N + 1] = 1
    /\ state.activity_log[0] = 1
    /\ \A i \in 0..(N - 1) : state.activity_log[i] # 2

\* C5: at most one commit happens per calendar day, and data_points changes
\* only in a step that handles EVENT_BACKGROUND_TASK, by exactly +1.
C5_OneCommitPerDay ==
    /\ [](commits_today <= 1)
    /\ [][state'.data_points # state.data_points =>
            (IsDelivery /\ state'.data_points = state.data_points + 1)]_vars

\* The day's commit has happened, and user input has arrived since activation.
C5_Witness ==
    /\ commits_today = 1
    /\ state.data_points = 1
    /\ foreground
    /\ state.display_index = 2
    /\ ~state.show_emoticon

\* C6: the commit stores the accumulator as it is when EVENT_BACKGROUND_TASK is
\* handled, and while a request is open only the sampler (by +1) and the commit
\* change the accumulator.
C6_CommitReadsLatest ==
    [][/\ IsDelivery =>
            state'.activity_log[state.data_points % N] = state.active_minutes_today
       /\ (pending /\ state'.active_minutes_today # state.active_minutes_today) =>
            \/ IsDelivery
            \/ (IsAdvise /\ state'.active_minutes_today =
                               state.active_minutes_today + 1)]_vars

\* The stored total is larger than the accumulator was at the request: a
\* minute was credited between the request and the delivery.
C6_Witness ==
    /\ Len(delivered) = 1
    /\ state.data_points = 1
    /\ state.activity_log[0] = amt_at_request + 1
    /\ amt_at_request > 0
    /\ foreground

\* C7: the total a commit stores holds no minute credited before the day that
\* the latest request closed: it is at most the credits of that day plus those
\* made since the request.
C7_SkippedDayIsLost ==
    [][IsDelivery =>
         state'.activity_log[state.data_points % N]
             <= closed_day_credits + day_credits]_vars

\* C8: the advisory returns wants_background_task exactly at 00:00, so one
\* request is raised per midnight the clock passes; the call leaves
\* activity_log and data_points alone and does not lower the accumulator.
C8_AdvisoryAtMidnight ==
    /\ [](elapsed > 0 => (wants_background_task <=> (hour = 0 /\ minute = 0)))
    /\ [](requests = midnights)
    /\ [][IsAdvise =>
            /\ state'.activity_log = state.activity_log
            /\ state'.data_points = state.data_points
            /\ state'.active_minutes_today >= state.active_minutes_today]_vars

\* The second midnight: the advisory has just returned TRUE for the second
\* time, with a non-zero accumulator.
C8_Witness ==
    /\ wants_background_task
    /\ requests = 2
    /\ midnights = 2
    /\ state.active_minutes_today > 0

\* C9: the accumulator never exceeds the minutes of a day.
C9_AccumulatorBounded ==
    state.active_minutes_today <= MinutesPerDay

\* C10: no hourly slot exceeds the minutes of an hour.
C10_HourlyBounded ==
    \A h \in 0..(HoursPerDay - 1) : state.hourly_data[h] <= MinutesPerHour

\* An hour in which every minute was credited.
C10_Witness ==
    \E h \in 0..(HoursPerDay - 1) : state.hourly_data[h] = MinutesPerHour

\* C11: a call of the sampler at minute 0 of hour h leaves hourly_data[h] at 0
\* or 1 (1 exactly when the minute was credited), whatever the slot held; a
\* call at another minute lowers no slot; no call changes the slot of another
\* hour.
C11_HourBoundaryReset ==
    [][IsAdvise =>
         LET credited == state'.active_minutes_today # state.active_minutes_today
         IN  /\ minute' = 0 =>
                    state'.hourly_data[hour'] = (IF credited THEN 1 ELSE 0)
             /\ minute' # 0 =>
                    \A h \in 0..(HoursPerDay - 1) :
                        state'.hourly_data[h] >= state.hourly_data[h]
             /\ \A h \in 0..(HoursPerDay - 1) :
                    h # hour' => state'.hourly_data[h] = state.hourly_data[h]]_vars

\* The second 00:00: slot 0, which counted the first day's hour 0 (58 minutes
\* at least, as hour 1 counted 60), now holds only the credit of this minute.
C11_Witness ==
    /\ midnights = 2
    /\ hour = 0
    /\ minute = 0
    /\ state.hourly_data[0] = 1
    /\ state.hourly_data[1] = MinutesPerHour
    /\ state.hourly_data[HoursPerDay - 1] >= MinutesPerHour - FreeMinutes

\* Slot i of the 12-hour window read at hour `hour'.
WindowSlot(i) == hour_index(hour, i)

\* C12: with one sampler call per minute, every slot the 12-hour window reads
\* holds exactly the minutes credited to it since its latest h:00 call, and
\* that call was made less than twelve hours ago.
C12_HourlyRingIsFresh ==
    \A i \in 0..(WindowSize - 1) :
        /\ state.hourly_data[WindowSlot(i)] = slot_credits[WindowSlot(i)]
        /\ elapsed - slot_reset_at[WindowSlot(i)] < WindowSize * MinutesPerHour

\* 00:02 after the second midnight: the newest slot of the window is hour 0,
\* which counted 58 minutes at least on the first day and now holds the three
\* credits made since 00:00; the oldest is hour 13, cleared 11 hours ago.
C12_Witness ==
    /\ midnights = 2
    /\ hour = 0
    /\ minute = 2
    /\ WindowSlot(WindowSize - 1) = 0
    /\ state.hourly_data[0] = 3
    /\ WindowSlot(0) = 13
    /\ state.hourly_data[13] = MinutesPerHour
    /\ elapsed - slot_reset_at[13] >= (WindowSize - 1) * MinutesPerHour

\* The LCD shows the Day page for k days back, k >= 1.
ShowsDayBack(k) ==
    /\ display.top_left = "ACT"
    /\ display.top_right_kind = "day_back"
    /\ display.top_right = k

\* C13: the Day page for k >= 1 days back shows "no dat" exactly when fewer
\* than k commits have been made, and otherwise the number stored by the k-th
\* most recent commit, which is activity_log[(data_points - k) mod N]; a
\* stored 0 is shown as the number 0.
C13_OutOfRangeRead ==
    \A k \in 1..(N - 1) :
        ShowsDayBack(k) =>
            LET c == Len(delivered)
            IN  /\ display.bottom_kind = "no dat" <=> k > c
                /\ k <= c =>
                       /\ display.bottom_kind = "minutes"
                       /\ display.bottom = delivered[c - k + 1]
                       /\ display.bottom =
                              state.activity_log[(state.data_points - k) % N]

\* Two commits, the first of them of a day without activity (a stored 0):
\* three days back the page shows "no dat".
C13_Witness ==
    /\ Len(delivered) = 2
    /\ delivered[1] = 0
    /\ state.activity_log[0] = 0
    /\ state.data_points = 2
    /\ ShowsDayBack(3)
    /\ display.bottom_kind = "no dat"

\* The LCD shows a histogram page of the 12-day timeframe.
ShowsDaily ==
    /\ display.top_left \in {"DA", "MED", "MIN", "MAX"}
    /\ ~display.signal

\* The total the j-th most recent commit stored, or 0 when fewer than j
\* commits have been made.
RecentTotal(j) ==
    IF j <= Len(delivered) THEN delivered[Len(delivered) - j + 1] ELSE 0

\* C14: entry i of the 12-day window is the total of the (12 - i)-th most
\* recent commit when that many commits exist and 0 otherwise, and the chart
\* draws the bar of that entry.
C14_DailyWindow ==
    ShowsDaily =>
        \A i \in 0..(WindowSize - 1) :
            /\ data[i] = RecentTotal(12 - i)
            /\ display.top_left = "DA" =>
                   display.bars[i] = _get_bar_height(RecentTotal(12 - i), FALSE)

\* C15: with 1 to 11 commits, the day the Min or Max page of the 12-day
\* timeframe names is a day that was committed: it lies at most data_points
\* days back.
C15_MinMaxSkipUncommitted ==
    (/\ ShowsDaily
     /\ display.top_left \in {"MIN", "MAX"}
     /\ state.data_points >= 1
     /\ state.data_points < 12)
        => display.top_right <= state.data_points

\* The LCD shows a histogram page of the 12-hour timeframe.
ShowsHourly ==
    /\ display.top_left \in {"HR", "MED", "MIN", "MAX"}
    /\ display.signal

\* The largest window index whose entry is v.
LastIndexOf(v) ==
    CHOOSE i \in 0..(WindowSize - 1) :
        /\ data[i] = v
        /\ \A j \in (i + 1)..(WindowSize - 1) : data[j] # v

\* C16: at every hour H, entry i of the 12-hour window is
\* hourly_data[(H - 11 + i + 24) mod 24]; the twelve slots are different and
\* the last one is H; the hour the Min or Max page names is the slot the
\* reported entry was read from.
C16_HourlyWindow ==
    ShowsHourly =>
        /\ \A i \in 0..(WindowSize - 1) :
               data[i] = state.hourly_data[(hour - 11 + i + 24) % 24]
        /\ \A i, j \in 0..(WindowSize - 1) :
               i # j => (hour - 11 + i + 24) % 24 # (hour - 11 + j + 24) % 24
        /\ (hour - 11 + 11 + 24) % 24 = hour
        /\ display.top_left \in {"MIN", "MAX"} =>
               /\ display.top_right_kind = "hour"
               /\ \E i \in 0..(WindowSize - 1) : data[i] = display.bottom
               /\ display.top_right =
                      (hour - 11 + LastIndexOf(display.bottom) + 24) % 24
               /\ state.hourly_data[display.top_right] = display.bottom

\* 03:30, every slot different: the window reaches back to 16:00 of the day
\* before and its maximum, 24, is the count of hour 23.
C16_Witness ==
    /\ hour = 3
    /\ ShowsHourly
    /\ display.top_left = "MAX"
    /\ display.top_right = 23
    /\ display.bottom = 24
    /\ data[0] = 17
    /\ data[WindowSize - 1] = 4

\* The k-th smallest entry of the window, k = 1..12.
KthSmallest(k) ==
    CHOOSE v \in {data[i] : i \in 0..(WindowSize - 1)} :
        /\ Cardinality({i \in 0..(WindowSize - 1) : data[i] < v}) < k
        /\ Cardinality({i \in 0..(WindowSize - 1) : data[i] <= v}) >= k

\* C17: the median shown for a window of twelve is floor((s[5] + s[6]) / 2),
\* s being the window in ascending order; 1..12 gives 6 and eleven 5s with
\* one 4 give 5.
C17_Median ==
    display.top_left = "MED" =>
        /\ display.bottom = (KthSmallest(6) + KthSmallest(7)) \div 2
        /\ data = Ascending => display.bottom = 6
        /\ data = FiveFour => display.bottom = 5

\* Six 7s before six 3s: the window is sorted the wrong way round and the
\* median is floor((3 + 7) / 2).
C17_Witness ==
    /\ display.top_left = "MED"
    /\ \A i \in 0..(WindowSize - 1) : data[i] = (IF i < 6 THEN 7 ELSE 3)
    /\ display.bottom = 5

\* The window index of the entry the Min or Max page of the 12-hour
\* timeframe names.
NamedIndex == (display.top_right - hour + 11 + HoursPerDay) % HoursPerDay

\* C18: the Min page shows the smallest entry of the window and names the
\* largest index that holds it; 3, 7, 3, 7, ... gives 3 at index 10.
C18_MinWithIndex ==
    (ShowsHourly /\ display.top_left = "MIN") =>
        /\ NamedIndex \in 0..(WindowSize - 1)
        /\ data[NamedIndex] = display.bottom
        /\ \A i \in 0..(WindowSize - 1) : data[i] >= display.bottom
        /\ \A i \in (NamedIndex + 1)..(WindowSize - 1) : data[i] > display.bottom
        /\ data = Alternating => (display.bottom = 3 /\ NamedIndex = 10)

\* The window 3, 7, 3, 7, ... at 11:30: the Min page shows 3 for hour 10.
C18_Witness ==
    /\ hour = 11
    /\ data = Alternating
    /\ ShowsHourly
    /\ display.top_left = "MIN"
    /\ display.bottom = 3
    /\ display.top_right = 10

\* C19: the Max page shows the largest entry of the window and names the
\* largest index that holds it; 3, 7, 3, 7, ... gives 7 at index 11.
C19_MaxWithIndex ==
    (ShowsHourly /\ display.top_left = "MAX") =>
        /\ NamedIndex \in 0..(WindowSize - 1)
        /\ data[NamedIndex] = display.bottom
        /\ \A i \in 0..(WindowSize - 1) : data[i] <= display.bottom
        /\ \A i \in (NamedIndex + 1)..(WindowSize - 1) : data[i] < display.bottom
        /\ data = Alternating => (display.bottom = 7 /\ NamedIndex = 11)

\* The window 3, 7, 3, 7, ... at 11:30: the Max page shows 7 for hour 11.
C19_Witness ==
    /\ hour = 11
    /\ data = Alternating
    /\ ShowsHourly
    /\ display.top_left = "MAX"
    /\ display.bottom = 7
    /\ display.top_right = 11

\* The fields that hold the recorded activity.
Tracked(s) ==
    <<s.active_minutes_today, s.previous_minute_was_active, s.hourly_data,
      s.activity_log, s.data_points>>

\* C20: a step that is neither a call of the sampler nor the handling of
\* EVENT_BACKGROUND_TASK (activation and every event of either mode, with the
\* page it draws and the median, minimum or maximum it computes) leaves the
\* accumulator, the latch, hourly_data, activity_log and data_points as they
\* are.
C20_ViewsLeaveHistory ==
    [][(~IsAdvise /\ ~IsDelivery) => Tracked(state') = Tracked(state)]_vars

\* 00:01 after motion since 23:58: the Max page of the 12-hour timeframe has
\* been drawn (2 minutes in hour 0) and the recorded activity is all there.
C20_Witness ==
    /\ foreground
    /\ ShowsHourly
    /\ display.top_left = "MAX"
    /\ display.top_right = 0
    /\ display.bottom = 2
    /\ data[WindowSize - 1] = 2
    /\ state.hourly_data[0] = 2
    /\ state.hourly_data[HoursPerDay - 1] = 1
    /\ state.active_minutes_today = 3
    /\ state.previous_minute_was_active

\* C21: the recorded activity does not depend on user input.  twin is the
\* struct of the run that receives the same advisory calls with the same
\* readings and the same EVENT_BACKGROUND_TASKs as state and no activation or
\* user event; two runs that differ only in their user input have the same
\* twin, so each agrees with it, and with the other, on active_minutes_today,
\* the latch, hourly_data, activity_log and data_points.
C21_TrackingIgnoresInput == Tracked(state) = Tracked(twin)

\* After two credited minutes and the midnight commit, with a third minute
\* credited since: the user has gone to the Max view of histogram mode, the
\* twin run is still in day mode on its first view.
C21_Witness ==
    /\ Len(delivered) = 1
    /\ state.data_points = 1
    /\ state.activity_log[0] = 2
    /\ state.active_minutes_today = 1
    /\ state.mode = "MODE_HISTOGRAM"
    /\ state.histogram_view = HISTOGRAM_VIEW_MAX
    /\ state.timeframe_mode = "12D"
    /\ twin.mode = "MODE_DAY"
    /\ twin.histogram_view = HISTOGRAM_VIEW_CHART
    /\ twin.timeframe_mode = "12H"

\* C22: a long LIGHT press toggles between day mode and histogram mode, and
\* when it enters day mode display_index is 0 immediately afterwards.
C22_LongPressTogglesMode ==
    [][LightLongPress =>
          /\ state.mode = "MODE_DAY" => state'.mode = "MODE_HISTOGRAM"
          /\ state.mode = "MODE_HISTOGRAM" => state'.mode = "MODE_DAY"
          /\ state'.mode = "MODE_DAY" => state'.display_index = 0]_vars

\* The face is back in day mode on the page of today, drawn after a histogram
\* page that showed activity in the current hour: a long press has entered
\* histogram mode and another has left it, with a third view selected between.
C22_Witness ==
    /\ foreground
    /\ state.mode = "MODE_DAY"
    /\ state.display_index = 0
    /\ state.histogram_view = HISTOGRAM_VIEW_MIN
    /\ ShowsDayBack(0)
    /\ data[WindowSize - 1] > 0

\* The struct after k presses of the ALARM button.
RECURSIVE AlarmPresses(_, _)
AlarmPresses(s, k) ==
    IF k = 0
    THEN s
    ELSE AlarmPresses(activity_logging_face_loop(s, "EVENT_ALARM_BUTTON_DOWN"),
                      k - 1)

\* C23: display_index is always in 0..N-1, and in day mode N presses of the
\* ALARM button bring it back to where it was.
C23_IndexInRange ==
    /\ state.display_index \in 0..(N - 1)
    /\ state.mode = "MODE_DAY" =>
           AlarmPresses(state, N).display_index = state.display_index

\* C23: in day mode a LIGHT press decrements display_index when it is above 0
\* and changes nothing of the struct when it is 0.
C23_LightPressDecrements ==
    [][(LightButtonUp /\ state.mode = "MODE_DAY") =>
          state' = IF state.display_index > 0
                   THEN [state EXCEPT !.display_index = @ - 1]
                   ELSE state]_vars

\* C23: in day mode an ALARM press sets display_index to (display_index + 1)
\* mod N.
C23_AlarmPressIncrements ==
    [][(AlarmButtonDown /\ state.mode = "MODE_DAY") =>
          state' = [state EXCEPT !.display_index = (@ + 1) % N]]_vars

\* C23: day-mode navigation: the three statements above together.
C23_DayNavigation ==
    /\ []C23_IndexInRange
    /\ C23_LightPressDecrements
    /\ C23_AlarmPressIncrements

\* Day mode shows the oldest page, N-1 days back: the ALARM button has been
\* pressed N-1 times, and the next press wraps to today.
C23_Witness ==
    /\ foreground
    /\ state.mode = "MODE_DAY"
    /\ state.display_index = N - 1
    /\ ShowsDayBack(N - 1)
    /\ activity_logging_face_loop(state, "EVENT_ALARM_BUTTON_DOWN").display_index = 0

\* The struct after k presses of the LIGHT button.
RECURSIVE LightPresses(_, _)
LightPresses(s, k) ==
    IF k = 0
    THEN s
    ELSE LightPresses(activity_logging_face_loop(s, "EVENT_LIGHT_BUTTON_UP"),
                      k - 1)

\* The view the LIGHT button selects after view.
NextView(view) ==
    CASE view = HISTOGRAM_VIEW_CHART -> HISTOGRAM_VIEW_MEDIAN
      [] view = HISTOGRAM_VIEW_MEDIAN -> HISTOGRAM_VIEW_MIN
      [] view = HISTOGRAM_VIEW_MIN -> HISTOGRAM_VIEW_MAX
      [] view = HISTOGRAM_VIEW_MAX -> HISTOGRAM_VIEW_CHART

\* C24: in histogram mode four LIGHT presses, and two ALARM presses, give
\* back the struct they started from.
C24_PressesRestore ==
    state.mode = "MODE_HISTOGRAM" =>
        /\ LightPresses(state, 4) = state
        /\ AlarmPresses(state, 2) = state

\* C24: in histogram mode a LIGHT press selects the next view in the order
\* Chart, Median, Min, Max, Chart and changes nothing else of the struct.
C24_LightPressCyclesView ==
    [][(LightButtonUp /\ state.mode = "MODE_HISTOGRAM") =>
          state' = [state EXCEPT !.histogram_view = NextView(@)]]_vars

\* C24: in histogram mode an ALARM press switches between the 12-hour and the
\* 12-day timeframe and changes nothing else of the struct.
C24_AlarmPressTogglesTimeframe ==
    [][(AlarmButtonDown /\ state.mode = "MODE_HISTOGRAM") =>
          /\ state'.timeframe_mode # state.timeframe_mode
          /\ state'.timeframe_mode \in {"12H", "12D"}
          /\ state' = [state EXCEPT !.timeframe_mode = state'.timeframe_mode]]_vars

\* C24: histogram-mode navigation: the three statements above together.
C24_HistogramNavigation ==
    /\ []C24_PressesRestore
    /\ C24_LightPressCyclesView
    /\ C24_AlarmPressTogglesTimeframe

\* The Max page of the 12-day timeframe is on the LCD: the LIGHT button has
\* been pressed three times and the ALARM button once, in histogram mode.
C24_Witness ==
    /\ foreground
    /\ state.mode = "MODE_HISTOGRAM"
    /\ state.histogram_view = HISTOGRAM_VIEW_MAX
    /\ state.timeframe_mode = "12D"
    /\ state.display_index = 0
    /\ ShowsDaily
    /\ display.top_left = "MAX"

\* C25: EVENT_TIMEOUT, in day mode and in histogram mode, sets display_index
\* to 0 and leaves the mode, the view, the timeframe and the rest of the
\* struct as they are.
C25_TimeoutEffect ==
    [][Timeout => state' = [state EXCEPT !.display_index = 0]]_vars

\* The latest event was a timeout, handled in histogram mode with the Max view
\* of the 12-day timeframe selected: both are still selected.
C25_Witness ==
    /\ timed_out
    /\ foreground
    /\ state.mode = "MODE_HISTOGRAM"
    /\ state.histogram_view = HISTOGRAM_VIEW_MAX
    /\ state.timeframe_mode = "12D"
    /\ state.display_index = 0
    /\ display.top_left = "MAX"

\* C26: after n >= 1 advisory calls in a row with motion present, all in hour
\* FeedHour and with no commit, active_minutes_today is n - 1 (149 after 150
\* calls), and hourly_data[FeedHour] does not exceed 60.
C26_EndToEnd ==
    /\ elapsed >= 1 => state.active_minutes_today = elapsed - 1
    /\ state.hourly_data[FeedHour] <= MinutesPerHour

\* The wake time of s, in minutes after midnight.
WakeMinute(s) ==
    (s.reference_hour * MinutesPerHour + s.reference_minute
         + SLEEP_DURATIONS[s.current_option + 1]) % MinutesPerDay

\* A step in which the sleep calculator calculates and shows a wake time.
UpdatesDisplay ==
    \/ SleepAlarmButtonUp
    \/ SleepAlarmLongPress
    \/ (SleepActivate /\ ~sleep_state.alarm_is_set)
    \/ (SleepTick /\ ~sleep_state.alarm_is_set
                  /\ minute # sleep_state.reference_minute)

\* C27: after every display update of the sleep calculator the stored alarm
\* time is the reference time plus the selected duration modulo 1440 minutes,
\* with alarm_hour in 0..23 and alarm_minute in 0..59.
C27_WakeTime ==
    [][UpdatesDisplay =>
          /\ sleep_state'.alarm_hour \in 0..(HoursPerDay - 1)
          /\ sleep_state'.alarm_minute \in 0..(MinutesPerHour - 1)
          /\ sleep_state'.alarm_hour * MinutesPerHour + sleep_state'.alarm_minute
                 = WakeMinute(sleep_state')]_vars

\* Reference time 22:30 with the 465-minute (7.5-hour) option selected: the
\* wake time on the display is 06:15.
C27_Witness ==
    /\ sleep_foreground
    /\ ~sleep_state.alarm_is_set
    /\ sleep_state.reference_hour = 22
    /\ sleep_state.reference_minute = 30
    /\ SLEEP_DURATIONS[sleep_state.current_option + 1] = 465
    /\ sleep_state.alarm_hour = 6
    /\ sleep_state.alarm_minute = 15

\* C28: an ALARM long press sets the alarm when it is not set and unsets it
\* when it is set.
C28_LongPressToggles ==
    [][SleepAlarmLongPress =>
          sleep_state'.alarm_is_set = ~sleep_state.alarm_is_set]_vars

\* The durations of the four documented options, 4.5, 6, 7.5 and 9 hours of
\* sleep, each with 15 minutes to fall asleep.
DocumentedDurations == {285, 375, 465, 555}

\* The struct of the sleep calculator after k presses of the ALARM button.
RECURSIVE SleepAlarmPresses(_, _)
SleepAlarmPresses(s, k) ==
    IF k = 0
    THEN s
    ELSE SleepAlarmPresses(
             sleep_calculator_face_loop(s, "EVENT_ALARM_BUTTON_UP", hour, minute),
             k - 1)

\* C29: current_option is always a valid index, the option selected is always
\* one of the four documented ones, and four ALARM presses return to the
\* option they started from.
C29_FourOptions ==
    /\ sleep_state.current_option \in 0..(SLEEP_CALCULATOR_FACE_MAX_OPTIONS - 1)
    /\ SLEEP_DURATIONS[sleep_state.current_option + 1] \in DocumentedDurations
    /\ sleep_foreground =>
           SleepAlarmPresses(sleep_state, Cardinality(DocumentedDurations)).current_option
               = sleep_state.current_option

\* C30: the first wake time calculated after setup is 465 minutes (the
\* 7.5-hour option) after the time of activation.
C30_DefaultOption ==
    [][(SleepActivate /\ sleep_state = sleep_calculator_face_setup) =>
          sleep_state'.alarm_hour * MinutesPerHour + sleep_state'.alarm_minute
              = (hour * MinutesPerHour + minute + 465) % MinutesPerDay]_vars

\* The mode the LIGHT button selects after current_mode.
NextMode(current_mode) ==
    CASE current_mode = BYTEBASE_MODE_BINARY -> BYTEBASE_MODE_HEXADECIMAL
      [] current_mode = BYTEBASE_MODE_HEXADECIMAL -> BYTEBASE_MODE_DECIMAL
      [] current_mode = BYTEBASE_MODE_DECIMAL -> BYTEBASE_MODE_ASCII
      [] current_mode = BYTEBASE_MODE_ASCII -> BYTEBASE_MODE_BINARY

\* The struct of the bytebase face after k presses of the LIGHT button.
RECURSIVE BytebaseLightPresses(_, _)
BytebaseLightPresses(s, k) ==
    IF k = 0
    THEN s
    ELSE BytebaseLightPresses(
             bytebase_face_loop(s, "EVENT_LIGHT_BUTTON_DOWN", FALSE), k - 1)

\* C31: with the face on the display and not editing, four LIGHT presses
\* return to the mode they started from, with the value unchanged.
C31_FourPressesReturn ==
    (bytebase_foreground /\ ~bytebase_state.editing) =>
        LET s4 == BytebaseLightPresses(bytebase_state, BYTEBASE_NUM_MODES)
        IN  /\ s4.current_mode = bytebase_state.current_mode
            /\ s4.value = bytebase_state.value

\* C31: when not editing, a LIGHT press moves to the next of the four modes
\* cyclically, sets current_digit to 0 and changes nothing else; when editing,
\* a LIGHT press leaves the mode and the value as they are.
C31_LightPress ==
    [][BytebaseLightButtonDown =>
          IF bytebase_state.editing
          THEN /\ bytebase_state'.current_mode = bytebase_state.current_mode
               /\ bytebase_state'.value = bytebase_state.value
          ELSE bytebase_state' =
                   [bytebase_state EXCEPT !.current_mode = NextMode(@),
                                          !.current_digit = 0]]_vars

DecimalDigit(v, k) == (v \div (10 ^ k)) % 10

\* v with its decimal digit at position k replaced by d.
WithDecimalDigit(v, k, d) == (v - DecimalDigit(v, k) * (10 ^ k)) + d * (10 ^ k)

\* C32: an ALARM press while editing in decimal mode replaces the selected
\* decimal digit by its successor (9 wraps to 0), or by 0 when the number so
\* incremented would exceed 255, and leaves the other two digits as they are;
\* the result is in 0..255.
C32_DecimalIncrement ==
    [][(/\ BytebaseAlarmButtonUp
        /\ bytebase_state.editing
        /\ bytebase_state.current_mode = BYTEBASE_MODE_DECIMAL) =>
          LET v           == bytebase_state.value
              k           == bytebase_state.current_digit
              incremented == WithDecimalDigit(v, k, (DecimalDigit(v, k) + 1) % 10)
          IN  /\ bytebase_state'.value \in 0..255
              /\ bytebase_state'.value =
                     IF incremented > 255
                     THEN WithDecimalDigit(v, k, 0)
                     ELSE incremented]_vars

\* C33: in every reachable state of the activity face, histogram mode implies
\* display_index = 0.
C33_HistogramIndexZero ==
    state.mode = "MODE_HISTOGRAM" => state.display_index = 0

\* The face is in histogram mode with display_index 0 and a histogram page on
\* the LCD, after the ALARM button has been pressed in that mode (the 12-day
\* timeframe is selected).
C33_Witness ==
    /\ foreground
    /\ state.mode = "MODE_HISTOGRAM"
    /\ state.display_index = 0
    /\ state.timeframe_mode = "12D"
    /\ ShowsDaily

\* The credit of the advisory call being made: 1 when the latch was set and
\* the reading reports motion, else 0.
CreditOfStep ==
    IF state.previous_minute_was_active /\ prev_reading' THEN 1 ELSE 0

\* C34: the 00:00 advisory call leaves hourly_data[0] at the credit of that
\* call alone (zeroed, then credited), adds the credit to
\* active_minutes_today, and raises the commit request with that credit
\* counted.
C34_MidnightAdvisory ==
    [][(IsAdvise /\ hour' = 0 /\ minute' = 0) =>
          /\ state'.hourly_data[0] = CreditOfStep
          /\ state'.active_minutes_today
                 = state.active_minutes_today + CreditOfStep
          /\ wants_background_task'
          /\ pending'
          /\ amt_at_request' = state'.active_minutes_today]_vars

\* C34: the commit that answers the request while the clock still shows 00:00
\* stores the accumulator as the 00:00 call left it, leaves hourly_data as it
\* is and ends with active_minutes_today = 0.
C34_MidnightCommit ==
    [][(IsDelivery /\ pending /\ hour = 0 /\ minute = 0) =>
          /\ delivered'[Len(delivered')] = amt_at_request
          /\ state'.activity_log[state.data_points % N] = amt_at_request
          /\ state'.hourly_data = state.hourly_data
          /\ state'.active_minutes_today = 0]_vars

\* C34: midnight attribution: the two statements above together.
C34_MidnightAttribution ==
    /\ C34_MidnightAdvisory
    /\ C34_MidnightCommit

\* 00:00 after motion at 23:58, 23:59 and 00:00, the commit delivered: the day
\* that ended is stored with 2 minutes (those credited at 23:59 and at 00:00),
\* active_minutes_today is 0 and hourly_data[0] is 1.
C34_Witness ==
    /\ hour = 0 /\ minute = 0
    /\ ~pending
    /\ delivered = <<2>>
    /\ state.data_points = 1
    /\ state.activity_log[0] = 2
    /\ state.active_minutes_today = 0
    /\ state.hourly_data[0] = 1
    /\ state.hourly_data[HoursPerDay - 1] = 1

\* C35: activation sets show_emoticon and clears the tick count.
C35_ActivationShows ==
    [][Activate =>
          /\ state'.show_emoticon
          /\ state'.emoticon_tick_count = 0]_vars

\* C35: once the face has been activated, show_emoticon is true exactly while
\* fewer than two EVENT_TICKs have been handled in day mode since the latest
\* activation.
C35_ShownUntilSecondTick ==
    foreground => (state.show_emoticon <=> day_ticks < 2)

\* C35: show_emoticon becomes false only in the second day-mode EVENT_TICK
\* after activation and true only in an activation; the tick count changes
\* only in an activation or a day-mode EVENT_TICK, so an EVENT_TICK in
\* histogram mode changes neither.
C35_OnlyTicksAndActivation ==
    [][/\ (state.show_emoticon /\ ~state'.show_emoticon) =>
              (Tick /\ state.mode = "MODE_DAY" /\ day_ticks = 1 /\ day_ticks' = 2)
       /\ (~state.show_emoticon /\ state'.show_emoticon) => Activate
       /\ (state'.emoticon_tick_count # state.emoticon_tick_count) =>
              (Activate \/ (Tick /\ state.mode = "MODE_DAY"))
       /\ (Tick /\ state.mode = "MODE_HISTOGRAM") =>
              /\ state'.show_emoticon = state.show_emoticon
              /\ state'.emoticon_tick_count = state.emoticon_tick_count]_vars

\* C35: emoticon timing: the three statements above together.
C35_EmoticonTiming ==
    /\ C35_ActivationShows
    /\ []C35_ShownUntilSecondTick
    /\ C35_OnlyTicksAndActivation

\* Two EVENT_TICKs have been handled in day mode since the activation: the
\* emoticon is gone and the page of today shows the minutes.
C35_Witness ==
    /\ foreground
    /\ state.mode = "MODE_DAY"
    /\ day_ticks = 2
    /\ ~state.show_emoticon
    /\ state.emoticon_tick_count = 2
    /\ ShowsDayBack(0)
    /\ display.bottom_kind = "minutes"

\* The clock shows the stored alarm time of the sleep calculator.
AtAlarmTime ==
    /\ sleep_state.alarm_hour = hour
    /\ sleep_state.alarm_minute = minute

\* C36: the advisory of the sleep calculator asks for a background task
\* exactly when the alarm is set and the clock shows the stored alarm time,
\* and at most one EVENT_BACKGROUND_TASK has been handled since the latest
\* ALARM long press.
C36_RequestsWhenDue ==
    /\ sleep_calculator_face_advise(sleep_state, hour, minute)
           <=> (sleep_state.alarm_is_set /\ AtAlarmTime)
    /\ sleep_fires <= 1

\* C36: EVENT_BACKGROUND_TASK is handled with the alarm set and due and
\* clears alarm_is_set; alarm_is_set becomes true only in an ALARM long
\* press; while it is set, EVENT_TICK and activation leave the stored alarm
\* time as it is.
C36_ClearedByTask ==
    [][/\ SleepBackgroundTask =>
              /\ sleep_state.alarm_is_set /\ AtAlarmTime
              /\ ~sleep_state'.alarm_is_set
              /\ ~sleep_calculator_face_advise(sleep_state', hour', minute')
       /\ (~sleep_state.alarm_is_set /\ sleep_state'.alarm_is_set) =>
              SleepAlarmLongPress
       /\ ((SleepTick \/ SleepActivate) /\ sleep_state.alarm_is_set) =>
              /\ sleep_state'.alarm_is_set
              /\ sleep_state'.alarm_hour = sleep_state.alarm_hour
              /\ sleep_state'.alarm_minute = sleep_state.alarm_minute]_vars

\* C36: the alarm fires at most once per arming: the two statements above
\* together.
C36_FiresOncePerArming ==
    /\ []C36_RequestsWhenDue
    /\ C36_ClearedByTask

\* The alarm was armed at 23:58 for 23:59 with the 1-minute option, the clock
\* has reached 23:59 and the background task has been handled: the alarm is
\* no longer set and the advisory, in the minute of the alarm, is silent.
C36_Witness ==
    /\ sleep_fires = 1
    /\ ~sleep_state.alarm_is_set
    /\ sleep_state.reference_hour = 23 /\ sleep_state.reference_minute = 58
    /\ AtAlarmTime
    /\ hour = 23 /\ minute = 59
    /\ ~sleep_calculator_face_advise(sleep_state, hour, minute)

\* The number of digits that can be edited in current_mode.
DigitCount(current_mode) ==
    CASE current_mode = BYTEBASE_MODE_DECIMAL -> 3
      [] current_mode = BYTEBASE_MODE_HEXADECIMAL -> 2
      [] current_mode = BYTEBASE_MODE_BINARY -> 8
      [] OTHER -> 0

\* C37: in every reachable state of the bytebase face, editing implies that
\* the mode is not ASCII, that current_digit is below the digit count of the
\* mode (3 decimal, 2 hexadecimal, 8 binary), and, in binary mode, that the
\* high nibble is shown exactly when current_digit >= 4.
C37_EditingInvariant ==
    bytebase_state.editing =>
        /\ bytebase_state.current_mode # BYTEBASE_MODE_ASCII
        /\ bytebase_state.current_digit < DigitCount(bytebase_state.current_mode)
        /\ bytebase_state.current_mode = BYTEBASE_MODE_BINARY =>
               (bytebase_state.binary_show_high_nibble
                    <=> bytebase_state.current_digit >= 4)

\* Editing in binary mode with the top bit selected and the high nibble shown:
\* the ALARM long press has entered edit mode and LIGHT has been pressed seven
\* times.
C37_Witness ==
    /\ bytebase_foreground
    /\ bytebase_state.editing
    /\ bytebase_state.current_mode = BYTEBASE_MODE_BINARY
    /\ bytebase_state.current_digit = 7
    /\ bytebase_state.binary_show_high_nibble
    /\ bytebase_state.value = 170

====
